---- MODULE Spec2Model ----
(***************************************************************************)
(* Frame-chaining and segment-generation pipeline of gen_video             *)
(* (video_pipeline/prompts.py, images.py, videos.py, ffmpeg_utils.py,      *)
(* run_pipeline.py, config.py) and the page app.py.                        *)
(*                                                                         *)
(* Each operation is modelled under its own specification:                 *)
(*   SpecSegments    generate_all_segments (with generate_segment_for_pair *)
(*                   and extract_last_frame)                               *)
(*   SpecPair        one call of generate_segment_for_pair, over both mode *)
(*                   flags and several configured durations; SpecPairFair  *)
(*                   adds the fairness of sequential execution             *)
(*   SpecGenerate    generate_storyboard_images                            *)
(*   SpecRegenerate  regenerate_storyboard_images                          *)
(*   SpecConcat      concat_clips                                          *)
(*   SpecBuild       build_video_from_frames: generate_all_segments, then  *)
(*                   concat_clips on the clips it returned                 *)
(*   SpecPlanner     generate_frame_prompts                                *)
(*   SpecCalls       the image and the video calls together, for what the  *)
(*                   two mode flags decide                                 *)
(*   SpecStream      stream_build_video_from_frames                        *)
(*   SpecHost        make_run_directory and get_genai_client (config.py)   *)
(*   SpecUI          the session state of the Streamlit page (app.py)      *)
(* The external services (text, image and video model, ffmpeg) are the     *)
(* environment: their answers are nondeterministic choices.                *)
(***************************************************************************)
EXTENDS Integers, Sequences, FiniteSets, TLC

VARIABLES
    pc,                  \* position of the running call
    frames,              \* prompts_data["frames"]: the descriptor sequence
    frame_image_paths,   \* the frame image map: id -> path
    disk,                \* file system: path -> content, DOMAIN = existing files
    error,               \* the exception that left the call, or NoError
    result,              \* the value the call returned, or NoResult
    \* ---- generate_all_segments (videos.py)
    ffmpeg_installed,    \* whether the ffmpeg binary can be started
    clip_paths,
    first_id,
    second_id,
    current_start_image,
    idx,
    generated,           \* the clip path generate_segment_for_pair returned
    video_attempt,       \* `attempt` of generate_segment_for_pair's retry loop
    operation,           \* the video operation handle being polled
    polls,               \* operations.get calls made for the current operation
    requests,            \* video service side: the generate_videos requests received
    extractions,         \* the calls of extract_last_frame made so far
    use_fake_env,        \* USE_FAKE_GENAI is set to 1 in the environment
    client_is_fake,      \* the client carries is_fake_genai
    segment_duration_seconds,  \* cfg.segment_duration_seconds
    last_sleep,          \* seconds of the latest time.sleep, 0 before the first
    \* ---- generate/regenerate_storyboard_images (images.py)
    ref_image_path,      \* the reference image's path, or NoPath
    target_ids,
    reference_images,
    generated_images,
    updated_paths,       \* frame_paths / updated_paths being built
    pos,                 \* index of the frame the for loop is at (0-based)
    attempt,             \* attempt number inside _generate_image_bytes
    last_call,           \* image service side: arguments of the latest generate_content
    called,              \* image service side: indices it was called for
    produced,            \* image service side: index -> bytes it returned for that frame
    reads,               \* indices whose existing file was read with read_bytes
    disk0,               \* the file system when the call began
    image_failures,      \* the exceptions caught for the frame being generated
    \* ---- concat_clips (ffmpeg_utils.py)
    clip_list,           \* the clip paths handed to concat_clips
    reencode_on_failure,
    tool_runs,           \* media tool side: the ffmpeg concat runs, with exit codes
    \* ---- generate_frame_prompts (prompts.py)
    theme,
    num_frames,
    response,            \* what generate_content answered
    text_calls,          \* service side: the generate_content calls made
    \* ---- the host process (config.py, run_pipeline.py, app.py)
    clock,               \* datetime.now(), in whole seconds
    run_dirs,            \* the directories make_run_directory returned, in call order
    enable_real_env,     \* ENABLE_REAL_GENAI is set to 1 in the environment
    clients,             \* the clients get_genai_client built, in call order
    events,              \* what stream_build_video_from_frames has yielded
    session_state        \* st.session_state of the UI

vars == <<pc, frames, frame_image_paths, disk, error, result,
          ffmpeg_installed, clip_paths, first_id, second_id, current_start_image,
          idx, generated, video_attempt, operation, polls, requests, extractions,
          ref_image_path, target_ids, reference_images, generated_images,
          updated_paths, pos, attempt, last_call, called, produced, reads, disk0,
          use_fake_env, client_is_fake, segment_duration_seconds, last_sleep,
          image_failures, clip_list, reencode_on_failure, tool_runs,
          theme, num_frames, response, text_calls,
          clock, run_dirs, enable_real_env, clients, events, session_state>>

modeVars == <<use_fake_env, client_is_fake, segment_duration_seconds>>

segVars == <<ffmpeg_installed, clip_paths, first_id, second_id, current_start_image,
             idx, generated, video_attempt, operation, polls, requests, extractions,
             modeVars, last_sleep>>

imgVars == <<ref_image_path, target_ids, reference_images, generated_images,
             updated_paths, pos, attempt, last_call, called, produced, reads, disk0,
             image_failures>>

concatVars == <<clip_list, reencode_on_failure, tool_runs>>

plannerVars == <<theme, num_frames, response, text_calls>>

hostVars == <<clock, run_dirs, enable_real_env, clients, events, session_state>>

otherVars == <<concatVars, plannerVars, hostVars>>

----------------------------------------------------------------------------
(* Bounds of the model *)

MaxFrames == 3        \* longest descriptor sequence given to generate_all_segments
MaxImageFrames == 3   \* longest descriptor sequence given to the image passes
MaxPolls == 2         \* polls after which the video service reports done
MaxClips == 3         \* longest clip list given to concat_clips
MaxPlannerFrames == 3     \* largest ordinary num_frames asked of the planner
MaxResponseFrames == 4    \* longest frames list in a planner response
MaxUpdates == 2           \* updates taken from the segment stream
MaxVersions == 3          \* frame image sets one run of the UI goes through
MaxClock == 2             \* seconds the host process is followed for
MaxRuns == 3              \* calls of make_run_directory followed
MaxClients == 2           \* calls of get_genai_client followed

(* Program constants *)

SseofSeconds == 1     \* "-sseof", "-1": seek this many seconds before the clip's end
MaxVideoAttempts == 2 \* max_attempts in generate_segment_for_pair
MaxImageAttempts == 2 \* max_attempts in _generate_image_bytes
VeoDurationSeconds == 8      \* the duration forced outside fake mode
DefaultSegmentDuration == 8  \* PipelineConfig.segment_duration_seconds
PollDelaySeconds == 5        \* time.sleep(5) before each operations.get
RetryDelaySeconds == 3       \* time.sleep(3) before the second attempt
AlphabetSize == 26           \* len(string.ascii_uppercase)

----------------------------------------------------------------------------
(* Values *)

Null == "null"                     \* Python None / absent key / empty string
NoError == [type |-> "none"]
NoResult == [kind |-> "none"]
NoOperation == [done |-> FALSE, outcome |-> "none"]
NoPath == [kind |-> "none", idx |-> 0, first |-> "", second |-> ""]

Alphabet == <<"A", "B", "C", "D", "E", "F", "G", "H", "I", "J", "K", "L", "M",
              "N", "O", "P", "Q", "R", "S", "T", "U", "V", "W", "X", "Y", "Z">>
FallbackNames == <<"F0", "F1", "F2", "F3", "F4", "F5">>
PromptTexts == <<"prompt1", "prompt2", "prompt3", "prompt4", "prompt5", "prompt6">>
ChangeNotes == <<"change1", "change2", "change3", "change4", "change5", "change6">>

\* frames_dir / f"frame_{frame_id}.png"
FramePath(id) == [kind |-> "frame", idx |-> 0, first |-> id, second |-> ""]

\* segments_dir / f"segment_{idx:03d}_{first_id}_{second_id}.mp4"
SegmentPath(i, a, b) == [kind |-> "segment", idx |-> i, first |-> a, second |-> b]

\* segments_dir / f"segment_{idx:03d}_{first_id}_{second_id}_last.png"
LastFramePath(i, a, b) == [kind |-> "last", idx |-> i, first |-> a, second |-> b]

\* an empty dict
EmptyMap == [x \in {} |-> x]

\* d[k] = v on a dict
SetItem(d, k, v) == [x \in (DOMAIN d) \cup {k} |-> IF x = k THEN v ELSE d[x]]

\* Path.write_bytes: creates or overwrites the file
WriteBytes(d, p, c) == [q \in (DOMAIN d) \cup {p} |-> IF q = p THEN c ELSE d[q]]

\* Path.exists
Exists(d, p) == p \in DOMAIN d

\* content of a keyframe image produced earlier for frame id
Keyframe(id) == [kind |-> "keyframe", id |-> id]

\* Image.new("RGB", (4, 4), color="black")
PlaceholderImage == [kind |-> "placeholder", w |-> 4, h |-> 4, color |-> "black"]

\* the frame of a clip that lies `back` seconds before its end; back = 0 is the
\* final frame
FrameOfClip(clip, back) == [kind |-> "frame", clip |-> clip, back |-> back]

FinalFrame(clip) == FrameOfClip(clip, 0)

\* what `ffmpeg -y -sseof -1 -i video -frames:v 1 out` writes: the first frame
\* at the seek point, SseofSeconds before the end of the clip
FfmpegLastFrame(clip) == FrameOfClip(clip, SseofSeconds)

\* the bytes the video service delivers for its n-th request
ClipBytes(n) == [kind |-> "clip", n |-> n]

----------------------------------------------------------------------------
(* Descriptors *)

Descriptor(id, prompt, change) ==
    [id |-> id, prompt |-> prompt, change_from_previous |-> change]

\* the descriptors position i (1-based) may hold: the planner's letter id or no
\* id, a change note or none
SegmentDescriptors(i) ==
    { Descriptor(id, PromptTexts[i], ch) :
        id \in {Alphabet[i], Null}, ch \in {ChangeNotes[i], Null} }

\* the descriptor sequences of length 0..MaxFrames given to generate_all_segments
SegmentFrameSeqs ==
    UNION { { f \in [1..k -> UNION {SegmentDescriptors(i) : i \in 1..k}] :
                \A i \in 1..k : f[i] \in SegmentDescriptors(i) } : k \in 0..MaxFrames }

\* frame.get("id") or fallback
IdOr(frame, fallback) == IF frame.id = Null THEN fallback ELSE frame.id

----------------------------------------------------------------------------
(* generate_all_segments *)

\* first_frame.get("id") or "F0";  second.get("id") or f"F{idx+1}"
SegmentFrameId(i) == IdOr(frames[i + 1], FallbackNames[i + 1])

\* second.get("change_from_previous") or "smooth continuation"
MotionDescription(frame) ==
    IF frame.change_from_previous = Null
    THEN "smooth continuation" ELSE frame.change_from_previous

\* len(frames) < 2
TooFewFramesBelowOne == Len(frames) < 1

TooFewFrames == Len(frames) < 2

\* range(len(frames) - 1): the number of consecutive pairs
SegmentCountShort == Len(frames) - 2

SegmentCount == Len(frames) - 1

KeyErrorFirst(id) ==
    [type |-> "KeyError",
     text |-> "frame_image_paths is missing image for first frame id=", id |-> id]

KeyErrorFrameWithoutId(id) ==
    [type |-> "KeyError",
     text |-> "frame_image_paths is missing image for frame", id |-> Null]

KeyErrorFrame(id) ==
    [type |-> "KeyError",
     text |-> "frame_image_paths is missing image for frame id=", id |-> id]

Raise(e) ==
    /\ pc' = "raised"
    /\ error' = e

\* the variables of the image passes, while no image pass runs
ImagesIdle ==
    /\ ref_image_path = NoPath
    /\ target_ids = {}
    /\ reference_images = <<>>
    /\ generated_images = <<>>
    /\ updated_paths = EmptyMap
    /\ pos = 0
    /\ attempt = 0
    /\ last_call = NoResult
    /\ called = {}
    /\ produced = EmptyMap
    /\ reads = {}
    /\ disk0 = disk
    /\ image_failures = <<>>

\* the variables of generate_all_segments, while it does not run; the mode
\* flags belong to the process and the client and are set apart
SegmentsAtRest ==
    /\ ffmpeg_installed = FALSE
    /\ clip_paths = <<>>
    /\ first_id = Null
    /\ second_id = Null
    /\ current_start_image = NoPath
    /\ idx = 0
    /\ generated = NoPath
    /\ video_attempt = 0
    /\ operation = NoOperation
    /\ polls = 0
    /\ requests = <<>>
    /\ extractions = <<>>
    /\ segment_duration_seconds = DefaultSegmentDuration
    /\ last_sleep = 0

SegmentsIdle ==
    /\ SegmentsAtRest
    /\ use_fake_env = FALSE
    /\ client_is_fake = FALSE

\* the variables of concat_clips, while it does not run
ConcatIdle ==
    /\ clip_list = <<>>
    /\ reencode_on_failure = TRUE
    /\ tool_runs = <<>>

NoResponse == [kind |-> "none", doc |-> EmptyMap]

\* app.py 40-51: st.session_state before the first action; None is Null
NoSession ==
    [run_dir |-> 0, frames_version |-> 0, final_video_path |-> Null,
     selected_frames |-> {}, step1_complete |-> FALSE, step2_complete |-> FALSE,
     step3_complete |-> FALSE, use_fake_mode |-> FALSE]

\* the variables of the host process, while none of its operations is modelled
HostIdle ==
    /\ clock = 0
    /\ run_dirs = <<>>
    /\ enable_real_env = FALSE
    /\ clients = <<>>
    /\ events = <<>>
    /\ session_state = NoSession

\* the variables of generate_frame_prompts, while it does not run
PlannerIdle ==
    /\ theme = Null
    /\ num_frames = 0
    /\ response = NoResponse
    /\ text_calls = 0

InitSegments ==
    /\ pc = "segments_call"
    /\ frames \in SegmentFrameSeqs
    /\ \E ids \in SUBSET {Alphabet[i] : i \in 1..MaxFrames} :
          /\ frame_image_paths = [id \in ids |-> FramePath(id)]
          /\ disk = [p \in {FramePath(id) : id \in ids} |-> Keyframe(p.first)]
    /\ ffmpeg_installed \in BOOLEAN
    /\ error = NoError
    /\ result = NoResult
    /\ clip_paths = <<>>
    /\ first_id = Null
    /\ second_id = Null
    /\ current_start_image = NoPath
    /\ idx = 0
    /\ generated = NoPath
    /\ video_attempt = 0
    /\ operation = NoOperation
    /\ polls = 0
    /\ requests = <<>>
    /\ extractions = <<>>
    \* a fake client sets USE_FAKE_GENAI when it is built (fake_genai.py 231-233)
    /\ client_is_fake \in BOOLEAN
    /\ use_fake_env = client_is_fake
    /\ segment_duration_seconds = DefaultSegmentDuration
    /\ last_sleep = 0
    /\ ImagesIdle
    /\ ConcatIdle
    /\ PlannerIdle
    /\ HostIdle

\* videos.py 183-187: the descriptors (0-based) whose image is looked up in
\* the map before the loop over the pairs begins
LookedUpAtStartAll == 0..(Len(frames) - 1)

LookedUpAtStart == {0}

\* videos.py 177-187: the length check and the first frame's lookup
SegmentsStart ==
    /\ pc = "segments_call"
    /\ IF TooFewFrames
       THEN /\ Raise([type |-> "ValueError",
                      text |-> "At least 2 frames are required to generate segments.",
                      id |-> Null])
            /\ UNCHANGED <<first_id, current_start_image>>
       ELSE /\ first_id' = SegmentFrameId(0)
            /\ LET unknown == { i \in LookedUpAtStart :
                                  SegmentFrameId(i) \notin DOMAIN frame_image_paths }
               IN  IF unknown = {}
                   THEN /\ current_start_image' = frame_image_paths[first_id']
                        /\ pc' = "segments_loop"
                        /\ UNCHANGED error
                   ELSE /\ Raise(IF 0 \in unknown THEN KeyErrorFirst(first_id')
                                 ELSE KeyErrorFrame(SegmentFrameId(
                                        CHOOSE i \in unknown : \A j \in unknown : i <= j)))
                        /\ UNCHANGED current_start_image
    /\ clip_paths' = <<>>
    /\ UNCHANGED <<frames, frame_image_paths, disk, result, ffmpeg_installed,
                   second_id, idx, generated, video_attempt, operation, polls,
                   requests, extractions>>
    /\ UNCHANGED <<modeVars, last_sleep>>
    /\ UNCHANGED <<imgVars, otherVars>>

\* videos.py 189-197 and 212: the head of the for loop; the end frame's lookup,
\* or the return once every pair is done
SegmentsLoop ==
    /\ pc = "segments_loop"
    /\ IF idx < SegmentCount
       THEN /\ second_id' = SegmentFrameId(idx + 1)
            /\ IF second_id' \in DOMAIN frame_image_paths
               THEN /\ pc' = "video_submit"
                    /\ video_attempt' = 0
                    /\ UNCHANGED error
               ELSE /\ Raise(KeyErrorFrame(second_id'))
                    /\ UNCHANGED video_attempt
            /\ UNCHANGED result
       ELSE /\ pc' = "returned"
            /\ result' = [kind |-> "clip_paths", value |-> clip_paths]
            /\ UNCHANGED <<second_id, video_attempt, error>>
    /\ UNCHANGED <<frames, frame_image_paths, disk, ffmpeg_installed, clip_paths,
                   first_id, current_start_image, idx, generated, operation, polls,
                   requests, extractions>>
    /\ UNCHANGED <<modeVars, last_sleep>>
    /\ UNCHANGED <<imgVars, otherVars>>

\* the arguments generate_all_segments hands to generate_segment_for_pair
\* (videos.py 199-206), as generate_videos receives them (videos.py 93-115)
\* videos.py 24-25 and images.py 22-23: use_fake_genai() or is_fake_client(client)
FakeModeClientOnly == client_is_fake

FakeMode == use_fake_env \/ client_is_fake

\* videos.py 88-91: the duration handed to the video model
DurationSecondsAsConfigured == segment_duration_seconds

DurationSeconds ==
    IF ~FakeMode /\ segment_duration_seconds # VeoDurationSeconds
    THEN VeoDurationSeconds
    ELSE segment_duration_seconds

\* videos.py 28-34: _make_image_input hands over the path in fake mode and
\* the file's bytes with their mime type otherwise
ImageInputForm == IF FakeMode THEN "path" ELSE "image_bytes"

\* videos.py 193-196: the descriptor a pair takes its motion description from
MotionSourceFirstOfPair == frames[idx + 1]

MotionSource == frames[idx + 2]

VideoRequest ==
    [segment |-> idx,
     attempt |-> video_attempt,
     image |-> current_start_image,
     image_content |-> disk[current_start_image],
     image_form |-> ImageInputForm,
     last_frame |-> frame_image_paths[second_id],
     motion |-> MotionDescription(MotionSource),
     duration |-> DurationSeconds,
     output |-> SegmentPath(idx, first_id, second_id)]

ServiceError(where) == [type |-> "ServiceError", text |-> where, id |-> Null]

\* videos.py 121: _request_operation(); the service answers with an operation
\* that is done or still running, or the call raises
VideoSubmit ==
    /\ pc = "video_submit"
    /\ requests' = Append(requests, VideoRequest)
    /\ polls' = 0
    /\ \/ /\ \E d \in BOOLEAN, o \in {"error", "empty", "videos"} :
               operation' = [done |-> d, outcome |-> o]
          /\ pc' = "video_poll"
          /\ UNCHANGED error
       \/ /\ Raise(ServiceError("generate_videos"))
          /\ UNCHANGED operation
    /\ UNCHANGED <<frames, frame_image_paths, disk, result, ffmpeg_installed,
                   clip_paths, first_id, second_id, current_start_image, idx,
                   generated, video_attempt, extractions>>
    /\ UNCHANGED <<modeVars, last_sleep>>
    /\ UNCHANGED <<imgVars, otherVars>>

\* videos.py 123: getattr(operation, "done", False)
OperationDoneWhatever == TRUE

OperationDone == operation.done

\* videos.py 125: operation = genai_client.operations.get(operation)
RefreshedOperationDropped(got) == operation

RefreshedOperation(got) == got

\* videos.py 131 and 152: attempt < max_attempts - 1
MayRetryVideoOnceMore == video_attempt < MaxVideoAttempts

MayRetryVideo == video_attempt < MaxVideoAttempts - 1

\* videos.py 123-125: while not done: sleep(5); operation = operations.get(operation)
\* an operation nobody answers past MaxPolls polls is not modelled; the
\* counter stops there
VideoPoll ==
    /\ pc = "video_poll"
    /\ ~OperationDone
    /\ last_sleep' = PollDelaySeconds
    /\ polls' = IF polls < MaxPolls THEN polls + 1 ELSE polls
    /\ \/ /\ \E d \in BOOLEAN :
               /\ (polls' >= MaxPolls => d)
               /\ operation' = RefreshedOperation([operation EXCEPT !.done = d])
          /\ UNCHANGED <<pc, error>>
       \/ /\ Raise(ServiceError("operations.get"))
          /\ UNCHANGED operation
    /\ UNCHANGED <<frames, frame_image_paths, disk, result, ffmpeg_installed,
                   clip_paths, first_id, second_id, current_start_image, idx,
                   generated, video_attempt, requests, extractions>>
    /\ UNCHANGED modeVars
    /\ UNCHANGED <<imgVars, otherVars>>

VeoError(text) == [type |-> "RuntimeError", text |-> text, id |-> Null]

\* videos.py 127-159: the completed operation is inspected: an error or a
\* response without videos is retried once, a video is downloaded and written
VideoInspect ==
    /\ pc = "video_poll"
    /\ OperationDone
    /\ IF operation.outcome = "videos"
       THEN \/ /\ disk' = WriteBytes(disk, SegmentPath(idx, first_id, second_id),
                                     ClipBytes(Len(requests)))
               /\ generated' = SegmentPath(idx, first_id, second_id)
               /\ pc' = "segments_extract"
               /\ UNCHANGED <<error, video_attempt, last_sleep>>
            \/ /\ Raise(ServiceError("files.download"))
               /\ UNCHANGED <<disk, generated, video_attempt, last_sleep>>
       ELSE /\ IF MayRetryVideo
               THEN /\ last_sleep' = RetryDelaySeconds
                    /\ video_attempt' = video_attempt + 1
                    /\ pc' = "video_submit"
                    /\ UNCHANGED error
               ELSE /\ Raise(VeoError(IF operation.outcome = "error"
                                      THEN "Veo operation failed"
                                      ELSE "did not return generated_videos"))
                    /\ UNCHANGED <<video_attempt, last_sleep>>
            /\ UNCHANGED <<disk, generated>>
    /\ UNCHANGED <<frames, frame_image_paths, result, ffmpeg_installed,
                   clip_paths, first_id, second_id, current_start_image, idx,
                   operation, polls, requests, extractions>>
    /\ UNCHANGED modeVars
    /\ UNCHANGED <<imgVars, otherVars>>

FFmpegError == [type |-> "FFmpegError",
                text |-> "ffmpeg failed to extract last frame", id |-> Null]

\* ffmpeg_utils.py 15-52: what extract_last_frame(video, output) leaves on disk
\* when it returns: the tool's frame, or the placeholder when the binary is absent
ExtractedImageAlwaysPlaceholder(video) == PlaceholderImage

ExtractedImageNeverPlaceholder(video) == FfmpegLastFrame(disk[video])

ExtractedImage(video) ==
    IF ffmpeg_installed THEN FfmpegLastFrame(disk[video]) ELSE PlaceholderImage

\* ffmpeg_utils.py 40: how subprocess.run(cmd) ends: the binary cannot be
\* started (FileNotFoundError), or the tool ran and exited
ExtractOutcomes ==
    IF ffmpeg_installed THEN {"exit 0", "exit non-zero"} ELSE {"binary absent"}

\* ffmpeg_utils.py 41-50: a non-zero exit raises FFmpegError, which the
\* `except FileNotFoundError` clause does not catch
ExtractRaisesNever(tool) == FALSE

ExtractRaisesUnlessZero(tool) == tool # "exit 0"

ExtractRaises(tool) == tool = "exit non-zero"

\* videos.py 210: current_start_image = extract_last_frame(...), not the next
\* keyframe
NextStartImageIsKeyframe(extracted) == frame_image_paths[second_id]

NextStartImage(extracted) == extracted

\* videos.py 207-211: the clip is appended, its last frame is extracted and
\* becomes the next start image
SegmentsExtract ==
    /\ pc = "segments_extract"
    /\ clip_paths' = Append(clip_paths, generated)
    /\ LET out == LastFramePath(idx, first_id, second_id) IN
       \E tool \in ExtractOutcomes :
          IF ExtractRaises(tool)
          THEN /\ extractions' = Append(extractions,
                     [video |-> generated, output |-> out, returned |-> NoPath,
                      tool |-> tool])
               /\ Raise(FFmpegError)
               /\ UNCHANGED <<disk, current_start_image, first_id, idx>>
          ELSE /\ disk' = WriteBytes(disk, out, ExtractedImage(generated))
               /\ extractions' = Append(extractions,
                     [video |-> generated, output |-> out, returned |-> out,
                      tool |-> tool])
               /\ current_start_image' = NextStartImage(out)
               /\ first_id' = second_id
               /\ idx' = idx + 1
               /\ pc' = "segments_loop"
               /\ UNCHANGED error
    /\ UNCHANGED <<frames, frame_image_paths, result, ffmpeg_installed, second_id,
                   generated, video_attempt, operation, polls, requests>>
    /\ UNCHANGED <<modeVars, last_sleep>>
    /\ UNCHANGED <<imgVars, otherVars>>

NextSegments ==
    \/ SegmentsStart
    \/ SegmentsLoop
    \/ VideoSubmit
    \/ VideoPoll
    \/ VideoInspect
    \/ SegmentsExtract

SpecSegments == InitSegments /\ [][NextSegments]_vars

----------------------------------------------------------------------------
(* generate_segment_for_pair, one call on its own *)

\* the values cfg.segment_duration_seconds is given
ConfiguredDurations == {4, VeoDurationSeconds, 12}

\* the call generate_all_segments makes for the first pair of two descriptors
\* (videos.py 199-206); the client and the configuration are the caller's
InitPair ==
    /\ pc = "video_submit"
    /\ frames \in {f \in SegmentFrameSeqs : Len(f) = 2}
    /\ first_id = SegmentFrameId(0)
    /\ second_id = SegmentFrameId(1)
    /\ frame_image_paths = [id \in {first_id, second_id} |-> FramePath(id)]
    /\ disk = [q \in {FramePath(first_id), FramePath(second_id)} |-> Keyframe(q.first)]
    /\ current_start_image = FramePath(first_id)
    /\ ffmpeg_installed = FALSE
    /\ error = NoError
    /\ result = NoResult
    /\ clip_paths = <<>>
    /\ idx = 0
    /\ generated = NoPath
    /\ video_attempt = 0
    /\ operation = NoOperation
    /\ polls = 0
    /\ requests = <<>>
    /\ extractions = <<>>
    /\ use_fake_env \in BOOLEAN
    /\ client_is_fake \in BOOLEAN
    /\ segment_duration_seconds \in ConfiguredDurations
    /\ last_sleep = 0
    /\ ImagesIdle
    /\ ConcatIdle
    /\ PlannerIdle
    /\ HostIdle

\* videos.py 145: return str(output_path)
PairReturned == pc = "segments_extract"

PairFinished == PairReturned \/ pc = "raised"

NextPair ==
    \/ VideoSubmit
    \/ VideoPoll
    \/ VideoInspect

SpecPair == InitPair /\ [][NextPair]_vars

\* the interpreter keeps running the call: a step the program can take is
\* taken; the service is never obliged to raise
SpecPairFair ==
    SpecPair /\ WF_vars(NextPair /\ error'.type # "ServiceError")

----------------------------------------------------------------------------
(* generate_storyboard_images and regenerate_storyboard_images *)

ReferencePath == [kind |-> "reference", idx |-> 0, first |-> "", second |-> ""]

\* the bytes of the user's reference image
ReferenceBytes == [kind |-> "reference"]

\* the bytes the image service returns for the frame at index i
GeneratedBytes(i) == [kind |-> "generated", index |-> i]

\* the descriptors position i (1-based) may hold in an image pass
ImageDescriptors(i) ==
    { Descriptor(id, PromptTexts[i], IF i = 1 THEN Null ELSE ChangeNotes[i]) :
        id \in {Alphabet[i], Null} }

\* the descriptor sequences of length 0..MaxImageFrames given to an image pass
ImageFrameSeqs ==
    UNION { { f \in [1..k -> UNION {ImageDescriptors(i) : i \in 1..k}] :
                \A i \in 1..k : f[i] \in ImageDescriptors(i) } : k \in 0..MaxImageFrames }

\* frame.get("id") or "X"
ImageFrameId(i) == IdOr(frames[i + 1], "X")

ImageFrameIds == { ImageFrameId(i) : i \in 0..(Len(frames) - 1) }

\* images.py 100-109
ComposeImagePrompt(frame) ==
    IF frame.prompt # Null THEN frame.prompt
    ELSE IF frame.change_from_previous # Null THEN frame.change_from_previous
    ELSE "incremental change from previous frame"

\* images.py 174-177, 223-226
LoadReferenceImagesNone == <<>>

LoadReferenceImages ==
    IF ref_image_path # NoPath THEN <<disk[ref_image_path]>> ELSE <<>>

\* images.py 186, 239: list(reference_images) + list(generated_images)
RefListWithoutReference == generated_images

RefList == reference_images \o generated_images

\* images.py 196, 252: generated_images.append(image_bytes)
AppendGeneratedDropped(image_bytes) == generated_images

AppendGenerated(image_bytes) == Append(generated_images, image_bytes)

\* images.py 195, 251: frame_paths[frame_id] = str(image_path)
RecordPathDropped(id, path) == updated_paths

RecordPath(id, path) == SetItem(updated_paths, id, path)

\* images.py 120-128: an anchor is handed over as raw bytes in fake mode and
\* as types.Part.from_bytes otherwise
AnchorForm == IF FakeMode THEN "bytes" ELSE "part"

\* images.py 136-149: what one attempt can raise: generate_content raises, or
\* _extract_image_bytes finds no bytes in the response (images.py 94-97);
\* the attempt number tells the exception objects of one call apart
ImageFailureKinds == {"generate_content raised", "response did not include any parts"}

ImageError(kind, n) ==
    [type |-> IF kind = "generate_content raised" THEN "ImageServiceError"
              ELSE "ValueError",
     text |-> kind, id |-> Null, attempt |-> n]

\* images.py 133 and 148: last_exc starts empty and holds the caught exceptions
CaughtSoFar == IF attempt = 0 THEN <<>> ELSE image_failures

\* images.py 152-153: raise last_exc
LastExcIsFirst(caught) == caught[1]

LastExc(caught) == caught[Len(caught)]

\* images.py 134: for _ in range(max_attempts)
MayRetryImageOnceMore == attempt < MaxImageAttempts

MayRetryImage == attempt < MaxImageAttempts - 1

\* images.py 134-153 with the caller's lines after it (193-196, 246-252): one
\* generate_content call for the frame at `pos`; bytes are written to `path`
\* and appended, a failure is retried up to MaxImageAttempts calls
ImageCall(callPc, loopPc, path) ==
    /\ pc = callPc
    /\ last_call' = [index |-> pos,
                     attempt |-> attempt,
                     prompt |-> ComposeImagePrompt(frames[pos + 1]),
                     anchors |-> RefList,
                     anchor_form |-> AnchorForm]
    /\ called' = called \cup {pos}
    /\ \/ /\ produced' = SetItem(produced, pos, GeneratedBytes(pos))
          /\ disk' = WriteBytes(disk, path, GeneratedBytes(pos))
          /\ updated_paths' = RecordPath(ImageFrameId(pos), path)
          /\ generated_images' = AppendGenerated(GeneratedBytes(pos))
          /\ pos' = pos + 1
          /\ pc' = loopPc
          /\ image_failures' = CaughtSoFar
          /\ UNCHANGED <<attempt, error>>
       \/ /\ \E kind \in ImageFailureKinds :
               image_failures' = Append(CaughtSoFar, ImageError(kind, attempt))
          /\ IF MayRetryImage
             THEN /\ attempt' = attempt + 1
                  /\ UNCHANGED <<pc, error>>
             ELSE /\ Raise(LastExc(image_failures'))
                  /\ UNCHANGED attempt
          /\ UNCHANGED <<produced, disk, updated_paths, generated_images, pos>>
    /\ UNCHANGED <<frames, frame_image_paths, result, ref_image_path, target_ids,
                   reference_images, reads, disk0>>
    /\ UNCHANGED <<segVars, otherVars>>

InitGenerate ==
    /\ pc = "generate_call"
    /\ frames \in ImageFrameSeqs
    /\ frame_image_paths = EmptyMap
    /\ ref_image_path \in {NoPath, ReferencePath}
    /\ disk = IF ref_image_path # NoPath
              THEN WriteBytes(EmptyMap, ReferencePath, ReferenceBytes)
              ELSE EmptyMap
    /\ error = NoError
    /\ result = NoResult
    /\ target_ids = {}
    /\ reference_images = <<>>
    /\ generated_images = <<>>
    /\ updated_paths = EmptyMap
    /\ pos = 0
    /\ attempt = 0
    /\ last_call = NoResult
    /\ called = {}
    /\ produced = EmptyMap
    /\ reads = {}
    /\ disk0 = disk
    /\ image_failures = <<>>
    /\ SegmentsAtRest
    /\ use_fake_env \in BOOLEAN
    /\ client_is_fake \in BOOLEAN
    /\ ConcatIdle
    /\ PlannerIdle
    /\ HostIdle

\* images.py 168-182
GenerateStart ==
    /\ pc = "generate_call"
    /\ reference_images' = LoadReferenceImages
    /\ generated_images' = <<>>
    /\ updated_paths' = EmptyMap
    /\ pos' = 0
    /\ pc' = "generate_loop"
    /\ UNCHANGED <<frames, frame_image_paths, disk, error, result, ref_image_path,
                   target_ids, attempt, last_call, called, produced, reads, disk0,
                   image_failures>>
    /\ UNCHANGED <<segVars, otherVars>>

\* images.py 183-186 and 197: the head of the for loop, or the return
GenerateLoop ==
    /\ pc = "generate_loop"
    /\ IF pos < Len(frames)
       THEN /\ pc' = "generate_image"
            /\ attempt' = 0
            /\ UNCHANGED result
       ELSE /\ pc' = "returned"
            /\ result' = [kind |-> "frame_paths", value |-> updated_paths]
            /\ UNCHANGED attempt
    /\ UNCHANGED <<frames, frame_image_paths, disk, error, ref_image_path,
                   target_ids, reference_images, generated_images, updated_paths,
                   pos, last_call, called, produced, reads, disk0, image_failures>>
    /\ UNCHANGED <<segVars, otherVars>>

\* images.py 187-196
GenerateImage ==
    ImageCall("generate_image", "generate_loop", FramePath(ImageFrameId(pos)))

NextGenerate ==
    \/ GenerateStart
    \/ GenerateLoop
    \/ GenerateImage

SpecGenerate == InitGenerate /\ [][NextGenerate]_vars

\* images.py 234: frame_image_paths.get(frame_id, frames_dir / f"frame_{frame_id}.png")
ExistingPath(i) ==
    IF ImageFrameId(i) \in DOMAIN frame_image_paths
    THEN frame_image_paths[ImageFrameId(i)]
    ELSE FramePath(ImageFrameId(i))

\* images.py 235: frame_id in target_ids or not existing_path.exists()
NeedsGenerateTargetsOnly(i) == ImageFrameId(i) \in target_ids

NeedsGenerateAlways(i) == TRUE

NeedsGenerate(i) ==
    \/ ImageFrameId(i) \in target_ids
    \/ ~Exists(disk, ExistingPath(i))

FileNotFoundError == [type |-> "FileNotFoundError",
                      text |-> "No such file or directory", id |-> Null]

InitRegenerate ==
    /\ pc = "regenerate_call"
    /\ frames \in ImageFrameSeqs
    /\ target_ids \in SUBSET ImageFrameIds
    /\ \E entries \in SUBSET ImageFrameIds :
          frame_image_paths = [id \in entries |-> FramePath(id)]
    /\ ref_image_path \in {NoPath, ReferencePath}
    /\ \E existing \in SUBSET ImageFrameIds :
          disk = [p \in {FramePath(id) : id \in existing} \cup
                        (IF ref_image_path # NoPath THEN {ReferencePath} ELSE {}) |->
                    IF p = ReferencePath THEN ReferenceBytes ELSE Keyframe(p.first)]
    /\ error = NoError
    /\ result = NoResult
    /\ reference_images = <<>>
    /\ generated_images = <<>>
    /\ updated_paths = EmptyMap
    /\ pos = 0
    /\ attempt = 0
    /\ last_call = NoResult
    /\ called = {}
    /\ produced = EmptyMap
    /\ reads = {}
    /\ disk0 = disk
    /\ image_failures = <<>>
    /\ SegmentsIdle
    /\ ConcatIdle
    /\ PlannerIdle
    /\ HostIdle

\* images.py 217-231
RegenerateStart ==
    /\ pc = "regenerate_call"
    /\ reference_images' = LoadReferenceImages
    /\ generated_images' = <<>>
    /\ updated_paths' = frame_image_paths
    /\ pos' = 0
    /\ pc' = "regenerate_loop"
    /\ UNCHANGED <<frames, frame_image_paths, disk, error, result, ref_image_path,
                   target_ids, attempt, last_call, called, produced, reads, disk0,
                   image_failures>>
    /\ UNCHANGED <<segVars, otherVars>>

\* images.py 232-237, 248-254: the head of the for loop: a frame that needs no
\* generation is read from disk and appended; after the last frame the map is
\* returned
RegenerateLoop ==
    /\ pc = "regenerate_loop"
    /\ IF pos >= Len(frames)
       THEN /\ pc' = "returned"
            /\ result' = [kind |-> "frame_paths", value |-> updated_paths]
            /\ UNCHANGED <<error, attempt, generated_images, updated_paths, reads, pos>>
       ELSE IF NeedsGenerate(pos)
       THEN /\ pc' = "regenerate_image"
            /\ attempt' = 0
            /\ UNCHANGED <<error, result, generated_images, updated_paths, reads, pos>>
       ELSE IF Exists(disk, ExistingPath(pos))
       THEN /\ generated_images' = AppendGenerated(disk[ExistingPath(pos)])
            /\ updated_paths' = RecordPath(ImageFrameId(pos), ExistingPath(pos))
            /\ reads' = reads \cup {pos}
            /\ pos' = pos + 1
            /\ UNCHANGED <<pc, error, result, attempt>>
       ELSE /\ Raise(FileNotFoundError)
            /\ UNCHANGED <<result, attempt, generated_images, updated_paths, reads, pos>>
    /\ UNCHANGED <<frames, frame_image_paths, disk, ref_image_path, target_ids,
                   reference_images, last_call, called, produced, disk0,
                   image_failures>>
    /\ UNCHANGED <<segVars, otherVars>>

\* images.py 238-247, 251-252
RegenerateImage ==
    ImageCall("regenerate_image", "regenerate_loop", ExistingPath(pos))

NextRegenerate ==
    \/ RegenerateStart
    \/ RegenerateLoop
    \/ RegenerateImage

SpecRegenerate == InitRegenerate /\ [][NextRegenerate]_vars

\* The generation calls under every combination of the USE_FAKE_GENAI flag and
\* the kind of client: one segment call, or one keyframe pass
InitCalls == InitPair \/ InitGenerate

NextCalls == NextPair \/ NextGenerate

SpecCalls == InitCalls /\ [][NextCalls]_vars

----------------------------------------------------------------------------
(* concat_clips *)

\* tempfile.NamedTemporaryFile(mode="w", delete=False, suffix=".txt")
ManifestPath == [kind |-> "manifest", idx |-> 0, first |-> "", second |-> ""]

\* Path(output_path).resolve()
FinalVideoPath == [kind |-> "final_video", idx |-> 0, first |-> "", second |-> ""]

\* the clip path at position i (1-based) of a clip list
ClipPath(i) == SegmentPath(i - 1, Alphabet[i], Alphabet[i + 1])

\* the lines _format_concat_line writes, one per clip, in list order
ManifestText(clips) == [kind |-> "manifest", files |-> clips]

\* what a concat run that exits 0 leaves at the output path
ConcatOutput(mode, clips) ==
    [kind |-> "concatenated", mode |-> mode,
     clips |-> [i \in 1..Len(clips) |-> disk[clips[i]]]]

\* Path.unlink(missing_ok=True)
UnlinkNothing(d, q) == d

Unlink(d, q) == [x \in (DOMAIN d) \ {q} |-> d[x]]

ClipNotFound(clip) ==
    [type |-> "FileNotFoundError", text |-> "Clip not found: ", id |-> Null,
     path |-> clip]

\* subprocess.run cannot start a binary that is not installed
ToolNotFound ==
    [type |-> "FileNotFoundError", text |-> "No such file or directory: 'ffmpeg'",
     id |-> Null]

ConcatFailed == [type |-> "RuntimeError", text |-> "ffmpeg concat failed: ", id |-> Null]

\* the exit codes of a media tool run
ExitCodes == {0, 1}

InitConcat ==
    /\ pc = "concat_call"
    /\ \E n \in 0..MaxClips : clip_list = [i \in 1..n |-> ClipPath(i)]
    /\ \E existing \in SUBSET {ClipPath(i) : i \in 1..Len(clip_list)} :
          disk = [q \in existing |-> ClipBytes(q.idx + 1)]
    /\ reencode_on_failure \in BOOLEAN
    /\ tool_runs = <<>>
    /\ ffmpeg_installed \in BOOLEAN
    /\ frames = <<>>
    /\ frame_image_paths = EmptyMap
    /\ error = NoError
    /\ result = NoResult
    /\ clip_paths = <<>>
    /\ first_id = Null
    /\ second_id = Null
    /\ current_start_image = NoPath
    /\ idx = 0
    /\ generated = NoPath
    /\ video_attempt = 0
    /\ operation = NoOperation
    /\ polls = 0
    /\ requests = <<>>
    /\ extractions = <<>>
    /\ use_fake_env = FALSE
    /\ client_is_fake = FALSE
    /\ segment_duration_seconds = DefaultSegmentDuration
    /\ last_sleep = 0
    /\ ImagesIdle
    /\ PlannerIdle
    /\ HostIdle

\* ffmpeg_utils.py 70-72: the clips that do not exist, by position
MissingClips == { i \in 1..Len(clip_list) : ~Exists(disk, clip_list[i]) }

LastMissingClip == clip_list[CHOOSE i \in MissingClips : \A j \in MissingClips : i >= j]

FirstMissingClip == clip_list[CHOOSE i \in MissingClips : \A j \in MissingClips : i <= j]

\* ffmpeg_utils.py 68: if not clip_list
NoClipsNever == FALSE

NoClips == clip_list = <<>>

\* ffmpeg_utils.py 67-84: the checks, then the manifest is written
ConcatStart ==
    /\ pc = "concat_call"
    /\ IF NoClips
       THEN /\ Raise([type |-> "ValueError",
                      text |-> "No clip paths provided for concatenation",
                      id |-> Null])
            /\ UNCHANGED disk
       ELSE IF MissingClips # {}
       THEN /\ Raise(ClipNotFound(FirstMissingClip))
            /\ UNCHANGED disk
       ELSE /\ disk' = WriteBytes(disk, ManifestPath, ManifestText(clip_list))
            /\ pc' = "concat_copy"
            /\ UNCHANGED error
    /\ UNCHANGED <<frames, frame_image_paths, result, concatVars>>
    /\ UNCHANGED <<segVars, imgVars, plannerVars, hostVars>>

\* what a concat run that exits non-zero may leave at the output path
PartialOutput == [kind |-> "partial"]

\* one ffmpeg concat run over the manifest: its exit code and the file system
\* it leaves
ToolRun(mode, code, after) ==
    /\ code \in ExitCodes
    /\ tool_runs' = Append(tool_runs, [mode |-> mode, exit |-> code,
                                       manifest |-> disk[ManifestPath]])
    /\ after \in IF code = 0
                 THEN {WriteBytes(disk, FinalVideoPath, ConcatOutput(mode, clip_list))}
                 ELSE {disk, WriteBytes(disk, FinalVideoPath, PartialOutput)}

\* ffmpeg_utils.py 101: result.returncode != 0 and reencode_on_failure
ShouldReencodeWhateverExit(code) == reencode_on_failure

ShouldReencode(code) == code # 0 /\ reencode_on_failure

\* ffmpeg_utils.py 121-125: the end of the call on the exit code of the last
\* run; the finally clause unlinks the manifest either way
ConcatFinish(code, after) ==
    /\ disk' = Unlink(after, ManifestPath)
    /\ IF code # 0
       THEN /\ Raise(ConcatFailed)
            /\ UNCHANGED result
       ELSE /\ pc' = "returned"
            /\ result' = [kind |-> "final_video", value |-> FinalVideoPath]
            /\ UNCHANGED error

\* ffmpeg_utils.py 86-101: the stream-copy run; a missing binary makes
\* subprocess.run raise, and the finally clause unlinks the manifest
ConcatCopy ==
    /\ pc = "concat_copy"
    /\ IF ~ffmpeg_installed
       THEN /\ Raise(ToolNotFound)
            /\ disk' = Unlink(disk, ManifestPath)
            /\ UNCHANGED <<tool_runs, result>>
       ELSE \E code \in ExitCodes, after \in {disk, WriteBytes(disk, FinalVideoPath, PartialOutput),
                          WriteBytes(disk, FinalVideoPath, ConcatOutput("copy", clip_list))} :
               /\ ToolRun("copy", code, after)
               /\ IF ShouldReencode(code)
                  THEN /\ pc' = "concat_reencode"
                       /\ disk' = after
                       /\ UNCHANGED <<error, result>>
                  ELSE ConcatFinish(code, after)
    /\ UNCHANGED <<frames, frame_image_paths, clip_list, reencode_on_failure>>
    /\ UNCHANGED <<segVars, imgVars, plannerVars, hostVars>>

\* ffmpeg_utils.py 102-125: the re-encode run
ConcatReencode ==
    /\ pc = "concat_reencode"
    /\ \E code \in ExitCodes, after \in {disk, WriteBytes(disk, FinalVideoPath, PartialOutput),
                          WriteBytes(disk, FinalVideoPath, ConcatOutput("reencode", clip_list))} :
          /\ ToolRun("reencode", code, after)
          /\ ConcatFinish(code, after)
    /\ UNCHANGED <<frames, frame_image_paths, clip_list, reencode_on_failure>>
    /\ UNCHANGED <<segVars, imgVars, plannerVars, hostVars>>

NextConcat ==
    \/ ConcatStart
    \/ ConcatCopy
    \/ ConcatReencode

SpecConcat == InitConcat /\ [][NextConcat]_vars

----------------------------------------------------------------------------
(* build_video_from_frames *)

\* run_pipeline.py 61-67: generate_all_segments handed its clip list back
SegmentsEndedAnyhow == pc \in {"returned", "raised"} /\ result.kind # "final_video"

SegmentsReturned == pc = "returned" /\ result.kind = "clip_paths"

\* run_pipeline.py 61-70: clip_paths = generate_all_segments(...) is handed to
\* concat_clips with the keyword parameter left at its default
BuildConcat ==
    /\ SegmentsReturned
    /\ clip_list' = clip_paths
    /\ reencode_on_failure' = TRUE
    /\ tool_runs' = <<>>
    /\ pc' = "concat_call"
    /\ UNCHANGED <<frames, frame_image_paths, disk, error, result>>
    /\ UNCHANGED <<segVars, imgVars, plannerVars, hostVars>>

\* run_pipeline.py 59-71: the segments first, then the concatenation; the
\* path concat_clips returned is the path build_video_from_frames returns
NextBuild ==
    \/ NextSegments
    \/ BuildConcat
    \/ NextConcat

SpecBuild == InitSegments /\ [][NextBuild]_vars

----------------------------------------------------------------------------
(* generate_frame_prompts *)

Themes == {"forest", "harbor"}

\* the values of num_frames tried: below the minimum, ordinary, the whole
\* alphabet, and one more than the alphabet
PlannerFrameCounts == (0..MaxPlannerFrames) \cup {AlphabetSize, AlphabetSize + 1}

\* prompts.py 16-22: _letters_sequence raises above the alphabet
LettersExceeded(count) == count > AlphabetSize

LettersSequence(count) == IF count < 1 THEN <<>> ELSE SubSeq(Alphabet, 1, count)

DefaultChange == "visible pose/camera/environment change from the previous frame"

\* An entry of the response's frames list is a JSON object, here a function
\* whose DOMAIN is the set of keys present; prompts are sequences of text pieces.
CompleteEntry(i) ==
    [id |-> Alphabet[i], prompt |-> <<PromptTexts[i]>>,
     change_from_previous |-> IF i = 1 THEN Null ELSE ChangeNotes[i]]

\* an entry with an id out of order, a change note on the first frame and a
\* null change on the later ones
DeviantEntry(i) ==
    [id |-> "Z", prompt |-> <<PromptTexts[i]>>,
     change_from_previous |-> IF i = 1 THEN ChangeNotes[i] ELSE Null]

NoPromptEntry(i) ==
    [id |-> Alphabet[i],
     change_from_previous |-> IF i = 1 THEN Null ELSE ChangeNotes[i]]

\* an entry that is a JSON string, number or null rather than an object
TextEntry == [not_object |-> TRUE]

IsObject(e) == "not_object" \notin DOMAIN e

ResponseEntries(i) ==
    {CompleteEntry(i), EmptyMap, DeviantEntry(i), NoPromptEntry(i), TextEntry}

RECURSIVE EntryLists(_)
EntryLists(m) ==
    IF m = 0 THEN {<<>>}
    ELSE { Append(fs, e) : fs \in EntryLists(m - 1), e \in ResponseEntries(m) }

\* What generate_content may answer: an exception, text without a {...} part,
\* text whose {...} part is not JSON, or a JSON object with or without "frames".
PlannerResponses ==
    { [kind |-> k, doc |-> EmptyMap] : k \in {"raises", "no_json", "bad_json", "json"} }
        \cup { [kind |-> "json", doc |-> [frames |-> fs]] :
                  fs \in UNION { EntryLists(m) : m \in 0..MaxResponseFrames } }

\* prompts.py 107-110 and 61-69: the exception of the call or of _extract_json
ResponseError(r) ==
    CASE r.kind = "raises" -> ServiceError("generate_content")
      [] r.kind = "no_json" ->
            [type |-> "ValueError",
             text |-> "Model response did not contain JSON content", id |-> Null]
      [] r.kind = "bad_json" ->
            [type |-> "JSONDecodeError", text |-> "json.loads", id |-> Null]
      [] OTHER -> NoError

\* dict.get(k) or default
DictGet(d, k, default) == IF k \in DOMAIN d THEN d[k] ELSE default

\* dict.setdefault(k, v)
SetDefault(d, k, v) == IF k \in DOMAIN d THEN d ELSE SetItem(d, k, v)

\* prompts.py 135: prompts_data.get("frames") or []
ListedFrames(doc) == DictGet(doc, "frames", <<>>)

\* prompts.py 138-145
FilledEntry(e, i, expected_id) ==
    SetDefault(SetDefault(e, "id", expected_id),
               "change_from_previous", IF i = 1 THEN Null ELSE DefaultChange)

\* prompts.py 147-155
AutofillEntry(th, i, expected_id) ==
    [id |-> expected_id,
     prompt |-> <<th, " frame ", expected_id, " in consistent style.">>,
     change_from_previous |-> IF i = 1 THEN Null ELSE DefaultChange]

\* prompts.py 136-155: the list after the loop over expected_ids
Backfilled(fs, n, th) ==
    LET expected_ids == LettersSequence(n)
        longest == IF Len(fs) > n THEN Len(fs) ELSE n
    IN  [i \in 1..longest |->
            IF i > n THEN fs[i]
            ELSE IF i <= Len(fs) THEN FilledEntry(fs[i], i, expected_ids[i])
            ELSE AutofillEntry(th, i, expected_ids[i])]

\* prompts.py 156: frames[:num_frames]
FirstFramesAll(fs, n) == fs

FirstFrames(fs, n) == SubSeq(fs, 1, n)

\* prompts.py 138: setdefault is called on every listed entry the loop visits
CrashingEntries(fs, n) ==
    { i \in 1..Len(fs) : i <= n /\ ~IsObject(fs[i]) }

InitPlanner ==
    /\ pc = "planner_call"
    /\ theme \in Themes
    /\ num_frames \in PlannerFrameCounts
    /\ response = NoResponse
    /\ text_calls = 0
    /\ frames = <<>>
    /\ frame_image_paths = EmptyMap
    /\ disk = EmptyMap
    /\ error = NoError
    /\ result = NoResult
    /\ SegmentsIdle
    /\ ImagesIdle
    /\ ConcatIdle
    /\ HostIdle

\* prompts.py 91
NumFramesTooSmallNever == FALSE

NumFramesTooSmall == num_frames < 2

\* prompts.py 91-97: the checks made before the request is assembled
PlannerStart ==
    /\ pc = "planner_call"
    /\ IF NumFramesTooSmall
       THEN Raise([type |-> "ValueError", text |-> "num_frames must be at least 2",
                   id |-> Null])
       ELSE IF LettersExceeded(num_frames)
       THEN Raise([type |-> "ValueError",
                   text |-> "num_frames exceeds supported frame labels", id |-> Null])
       ELSE /\ pc' = "planner_request"
            /\ UNCHANGED error
    /\ UNCHANGED <<frames, frame_image_paths, disk, result, plannerVars>>
    /\ UNCHANGED <<segVars, imgVars, concatVars, hostVars>>

\* prompts.py 107-157: the one generate_content call, _extract_json, the backfill
PlannerRequest ==
    /\ pc = "planner_request"
    /\ text_calls' = text_calls + 1
    /\ \E r \in PlannerResponses :
          /\ response' = r
          /\ IF ResponseError(r) # NoError
             THEN /\ Raise(ResponseError(r))
                  /\ UNCHANGED result
             ELSE LET fs == ListedFrames(r.doc) IN
                  IF CrashingEntries(fs, num_frames) # {}
                  THEN /\ Raise([type |-> "AttributeError", text |-> "setdefault",
                                 id |-> Null])
                       /\ UNCHANGED result
                  ELSE /\ result' = [kind |-> "prompts_data",
                                     frames |-> FirstFrames(Backfilled(fs, num_frames, theme),
                                                            num_frames)]
                       /\ pc' = "returned"
                       /\ UNCHANGED error
    /\ UNCHANGED <<frames, frame_image_paths, disk, theme, num_frames>>
    /\ UNCHANGED <<segVars, imgVars, concatVars, hostVars>>

NextPlanner == PlannerStart \/ PlannerRequest

SpecPlanner == InitPlanner /\ [][NextPlanner]_vars

----------------------------------------------------------------------------
(* stream_build_video_from_frames *)

\* the dicts the generators yield, with every key present
StreamEvent(type, stage, current, total, message, clips, final) ==
    [type |-> type, stage |-> stage, current |-> current, total |-> total,
     message |-> message, clip_paths |-> clips, final_video_path |-> final]

\* run_pipeline.py 86-92: what stream_generate_all_segments (videos.py, not
\* among the files at hand) may hand over: progress updates about segments
\* and result updates carrying a clip list, which may be empty
StreamUpdates ==
    { StreamEvent("progress", "segment", k, MaxClips, "segment", <<>>, NoPath) : k \in 1..MaxClips }
        \cup { StreamEvent("result", Null, 0, 0, Null, [i \in 1..n |-> ClipPath(i)], NoPath) :
                  n \in 0..MaxClips }

\* run_pipeline.py 85 and 94-95: clip_paths is the list of the latest update
\* of type "result", or [] when there was none
StreamClipPaths ==
    LET results == { n \in 1..Len(events) : events[n].type = "result" } IN
    IF results = {} THEN <<>>
    ELSE events[CHOOSE n \in results : \A m \in results : m <= n].clip_paths

InitStream ==
    /\ pc = "stream_loop"
    /\ events = <<>>
    /\ \E existing \in SUBSET {ClipPath(i) : i \in 1..MaxClips} :
          disk = [q \in existing |-> ClipBytes(q.idx + 1)]
    /\ ffmpeg_installed \in BOOLEAN
    /\ frames = <<>>
    /\ frame_image_paths = EmptyMap
    /\ error = NoError
    /\ result = NoResult
    /\ clip_paths = <<>>
    /\ first_id = Null
    /\ second_id = Null
    /\ current_start_image = NoPath
    /\ idx = 0
    /\ generated = NoPath
    /\ video_attempt = 0
    /\ operation = NoOperation
    /\ polls = 0
    /\ requests = <<>>
    /\ extractions = <<>>
    /\ use_fake_env = FALSE
    /\ client_is_fake = FALSE
    /\ segment_duration_seconds = DefaultSegmentDuration
    /\ last_sleep = 0
    /\ clock = 0
    /\ run_dirs = <<>>
    /\ enable_real_env = FALSE
    /\ clients = <<>>
    /\ session_state = NoSession
    /\ ImagesIdle
    /\ ConcatIdle
    /\ PlannerIdle

\* run_pipeline.py 86-95: one update of the segment stream is passed on
StreamUpdate ==
    /\ pc = "stream_loop"
    /\ Len(events) < MaxUpdates
    /\ \E update \in StreamUpdates : events' = Append(events, update)
    /\ UNCHANGED <<pc, frames, frame_image_paths, disk, error, result, clock,
                   run_dirs, enable_real_env, clients, session_state>>
    /\ UNCHANGED <<segVars, imgVars, concatVars, plannerVars>>

\* run_pipeline.py 86: the segment stream raises
StreamRaises ==
    /\ pc = "stream_loop"
    /\ Raise(ServiceError("stream_generate_all_segments"))
    /\ UNCHANGED <<frames, frame_image_paths, disk, result>>
    /\ UNCHANGED <<segVars, imgVars, concatVars, plannerVars, hostVars>>

\* run_pipeline.py 97-106: the segment stream is exhausted; with clip paths
\* the first concat progress event is yielded, then concat_clips is called
StreamExhausted ==
    /\ pc = "stream_loop"
    /\ events' = IF StreamClipPaths # <<>>
                 THEN Append(events, StreamEvent("progress", "concat", 1, Len(StreamClipPaths),
                                                 "joining", <<>>, NoPath))
                 ELSE events
    /\ clip_list' = StreamClipPaths
    /\ reencode_on_failure' = TRUE
    /\ tool_runs' = <<>>
    /\ pc' = "concat_call"
    /\ UNCHANGED <<frames, frame_image_paths, disk, error, result, clock, run_dirs,
                   enable_real_env, clients, session_state>>
    /\ UNCHANGED <<segVars, imgVars, plannerVars>>

\* run_pipeline.py 106-107: concat_clips handed its path back
ConcatEnded == pc \in {"returned", "raised"}

ConcatReturned == pc = "returned" /\ result.kind = "final_video"

\* run_pipeline.py 107-113
StreamConcatDone ==
    /\ ConcatReturned
    /\ events' = Append(events, StreamEvent("progress", "concat", Len(clip_list),
                                            Len(clip_list), "completed", <<>>, NoPath))
    /\ pc' = "stream_result"
    /\ UNCHANGED <<frames, frame_image_paths, disk, error, result, clock, run_dirs,
                   enable_real_env, clients, session_state>>
    /\ UNCHANGED <<segVars, imgVars, concatVars, plannerVars>>

\* run_pipeline.py 114
StreamResult ==
    /\ pc = "stream_result"
    /\ events' = Append(events, StreamEvent("result", Null, 0, 0, Null, <<>>, FinalVideoPath))
    /\ pc' = "stream_done"
    /\ UNCHANGED <<frames, frame_image_paths, disk, error, result, clock, run_dirs,
                   enable_real_env, clients, session_state>>
    /\ UNCHANGED <<segVars, imgVars, concatVars, plannerVars>>

NextStream ==
    \/ StreamUpdate
    \/ StreamRaises
    \/ StreamExhausted
    \/ NextConcat
    \/ StreamConcatDone
    \/ StreamResult

SpecStream == InitStream /\ [][NextStream]_vars

----------------------------------------------------------------------------
(* The host process: make_run_directory and get_genai_client *)

RunNames == {"demo"}

\* config.py 71-73: run_id = run_name or f"run_{timestamp}", under outputs_root;
\* the timestamp is datetime.now() formatted to the second
RunDirectory(run_name) ==
    IF run_name # Null
    THEN [kind |-> "run_dir", name |-> run_name, stamp |-> 0]
    ELSE [kind |-> "run_dir", name |-> Null, stamp |-> clock]

\* config.py 46-66: what get_genai_client does under the two flags; the real
\* client needs the google-genai package
ClientKindFakeFirst(installed) ==
    IF use_fake_env THEN "fake"
    ELSE IF enable_real_env THEN (IF installed THEN "real" ELSE "ImportError")
    ELSE "RuntimeError"

ClientKind(installed) ==
    IF enable_real_env THEN (IF installed THEN "real" ELSE "ImportError")
    ELSE IF use_fake_env THEN "fake"
    ELSE "RuntimeError"

InitHost ==
    /\ pc = "host"
    /\ clock = 0
    /\ run_dirs = <<>>
    /\ enable_real_env \in BOOLEAN
    /\ use_fake_env \in BOOLEAN
    /\ clients = <<>>
    /\ events = <<>>
    /\ session_state = NoSession
    /\ frames = <<>>
    /\ frame_image_paths = EmptyMap
    /\ disk = EmptyMap
    /\ error = NoError
    /\ result = NoResult
    /\ SegmentsAtRest
    /\ client_is_fake = FALSE
    /\ ImagesIdle
    /\ ConcatIdle
    /\ PlannerIdle

\* a second passes
Tick ==
    /\ pc = "host"
    /\ clock < MaxClock
    /\ clock' = clock + 1
    /\ UNCHANGED <<pc, frames, frame_image_paths, disk, error, result, run_dirs,
                   enable_real_env, clients, events, session_state>>
    /\ UNCHANGED <<segVars, imgVars, concatVars, plannerVars>>

\* config.py 69-78: mkdir(parents=True, exist_ok=True) accepts a directory
\* that is already there
MakeRunDirectory ==
    /\ pc = "host"
    /\ Len(run_dirs) < MaxRuns
    /\ \E run_name \in RunNames \cup {Null} :
          /\ run_dirs' = Append(run_dirs, RunDirectory(run_name))
          /\ result' = [kind |-> "run_dir", value |-> RunDirectory(run_name)]
    /\ error' = NoError
    /\ UNCHANGED <<pc, frames, frame_image_paths, disk, clock, enable_real_env,
                   clients, events, session_state>>
    /\ UNCHANGED <<segVars, imgVars, concatVars, plannerVars>>

\* config.py 46-66
GetGenaiClient ==
    /\ pc = "host"
    /\ Len(clients) < MaxClients
    /\ \E installed \in BOOLEAN :
          LET kind == ClientKind(installed) IN
          /\ clients' = Append(clients, [outcome |-> kind,
                                         enable_real |-> enable_real_env,
                                         use_fake |-> use_fake_env])
          /\ IF kind \in {"real", "fake"}
             THEN /\ result' = [kind |-> "client", value |-> kind]
                  /\ error' = NoError
             ELSE /\ result' = NoResult
                  /\ error' = [type |-> kind, text |-> "get_genai_client", id |-> Null]
    /\ UNCHANGED <<pc, frames, frame_image_paths, disk, clock, run_dirs,
                   enable_real_env, events, session_state>>
    /\ UNCHANGED <<segVars, imgVars, concatVars, plannerVars>>

NextHost ==
    \/ Tick
    \/ MakeRunDirectory
    \/ GetGenaiClient

SpecHost == InitHost /\ [][NextHost]_vars

----------------------------------------------------------------------------
(* The Streamlit page (app.py): the session state under its buttons.  A
   pipeline call made by a handler enters here by its outcome, return or
   raise; what it does to the file system is the subject of the
   specifications above.  In session_state, run_dir is the position in
   run_dirs of the directory in use and frames_version counts the sets of
   frame images of the run, 0 standing for frame_paths = None. *)

\* app.py 87-93: _select_client; kind is what it hands back, "none" for None
\* and "ImportError" for the exception that leaves get_genai_client
SelectClient(use_fake, installed, kind) ==
    /\ kind = IF enable_real_env THEN (IF installed THEN "real" ELSE "ImportError")
              ELSE IF use_fake THEN "fake"
              ELSE "none"
    /\ use_fake_env' = (use_fake_env \/ kind = "fake")
    /\ UNCHANGED <<ffmpeg_installed, clip_paths, first_id, second_id,
                   current_start_image, idx, generated, video_attempt, operation,
                   polls, requests, extractions, client_is_fake,
                   segment_duration_seconds, last_sleep>>

\* app.py 54-70: _reset_generation_state
ResetGenerationState(s) ==
    [s EXCEPT !.run_dir = 0, !.frames_version = 0, !.final_video_path = Null,
              !.selected_frames = {}, !.step1_complete = FALSE,
              !.step2_complete = FALSE, !.step3_complete = FALSE]

\* app.py 40-51: the defaults of a new session
InitUI ==
    /\ pc = "ui"
    /\ enable_real_env \in BOOLEAN
    /\ use_fake_env \in BOOLEAN
    /\ session_state = [NoSession EXCEPT !.use_fake_mode = use_fake_env]
    /\ clock = 0
    /\ run_dirs = <<>>
    /\ clients = <<>>
    /\ events = <<>>
    /\ frames = <<>>
    /\ frame_image_paths = EmptyMap
    /\ disk = EmptyMap
    /\ error = NoError
    /\ result = NoResult
    /\ SegmentsAtRest
    /\ client_is_fake = FALSE
    /\ ImagesIdle
    /\ ConcatIdle
    /\ PlannerIdle

\* app.py 121-125: the checkbox, offered while the real API is not enabled
ToggleFakeMode ==
    /\ pc = "ui"
    /\ ~enable_real_env
    /\ session_state' = [session_state EXCEPT !.use_fake_mode = ~session_state.use_fake_mode]
    /\ UNCHANGED <<pc, frames, frame_image_paths, disk, error, result, clock,
                   run_dirs, enable_real_env, clients, events>>
    /\ UNCHANGED <<segVars, imgVars, concatVars, plannerVars>>

\* app.py 170 and 194-198: the multiselect over the frame ids, offered while
\* frame_paths and prompts_data are set
SelectFrames ==
    /\ pc = "ui"
    /\ session_state.frames_version # 0
    /\ \E selection \in SUBSET {"A", "B"} :
          /\ selection # session_state.selected_frames
          /\ session_state' = [session_state EXCEPT !.selected_frames = selection]
    /\ UNCHANGED <<pc, frames, frame_image_paths, disk, error, result, clock,
                   run_dirs, enable_real_env, clients, events>>
    /\ UNCHANGED <<segVars, imgVars, concatVars, plannerVars>>

\* app.py 129-163: the generate button
GenerateKeyframes ==
    /\ pc = "ui"
    /\ \/ /\ UNCHANGED <<run_dirs, session_state>>     \* 130-131: empty theme
          /\ UNCHANGED segVars
       \/ \E installed \in BOOLEAN, kind \in {"real", "fake", "none", "ImportError"},
             succeeds \in BOOLEAN :
             /\ SelectClient(session_state.use_fake_mode, installed, kind)
             /\ IF kind \in {"real", "fake"}
                THEN /\ Len(run_dirs) < MaxRuns
                     /\ run_dirs' = Append(run_dirs, RunDirectory(Null))
                     /\ session_state' =
                           IF succeeds
                           THEN [ResetGenerationState(session_state) EXCEPT
                                    !.run_dir = Len(run_dirs) + 1,
                                    !.frames_version = 1,
                                    !.step1_complete = TRUE,
                                    !.step2_complete = FALSE,
                                    !.step3_complete = FALSE]
                           ELSE ResetGenerationState(session_state)
                ELSE UNCHANGED <<run_dirs, session_state>>
    /\ UNCHANGED <<pc, frames, frame_image_paths, disk, error, result, clock,
                   enable_real_env, clients, events>>
    /\ UNCHANGED <<imgVars, concatVars, plannerVars>>

\* app.py 170 and 200-222: the regenerate button
RegenerateFrames ==
    /\ pc = "ui"
    /\ session_state.frames_version # 0
    /\ session_state.selected_frames # {}
    /\ session_state.step1_complete
    /\ \E installed \in BOOLEAN, kind \in {"real", "fake", "none", "ImportError"},
          succeeds \in BOOLEAN :
          /\ SelectClient(session_state.use_fake_mode, installed, kind)
          /\ IF kind \in {"real", "fake"} /\ succeeds
             THEN /\ session_state.frames_version < MaxVersions
                  /\ session_state' = [session_state EXCEPT
                        !.frames_version = @ + 1,
                        !.final_video_path = Null,
                        !.step2_complete = FALSE,
                        !.step3_complete = FALSE]
             ELSE UNCHANGED session_state
    /\ UNCHANGED <<pc, frames, frame_image_paths, disk, error, result, clock,
                   run_dirs, enable_real_env, clients, events>>
    /\ UNCHANGED <<imgVars, concatVars, plannerVars>>

\* app.py 170 and 224-227: the confirm button
ConfirmFrames ==
    /\ pc = "ui"
    /\ session_state.frames_version # 0
    /\ session_state.step1_complete
    /\ session_state' = [session_state EXCEPT !.step2_complete = TRUE,
                                              !.step3_complete = FALSE]
    /\ UNCHANGED <<pc, frames, frame_image_paths, disk, error, result, clock,
                   run_dirs, enable_real_env, clients, events>>
    /\ UNCHANGED <<segVars, imgVars, concatVars, plannerVars>>

\* app.py 234: disabled=not state.step2_complete
BuildEnabledAlways == TRUE

BuildEnabled == session_state.step2_complete

\* app.py 234-252: the build button
BuildVideo ==
    /\ pc = "ui"
    /\ BuildEnabled
    /\ \E installed \in BOOLEAN, kind \in {"real", "fake", "none", "ImportError"},
          succeeds \in BOOLEAN :
          /\ SelectClient(session_state.use_fake_mode, installed, kind)
          /\ IF kind \in {"real", "fake"} /\ succeeds
             THEN session_state' = [session_state EXCEPT
                        !.final_video_path = "final.mp4",
                        !.step3_complete = TRUE]
             ELSE UNCHANGED session_state
    /\ UNCHANGED <<pc, frames, frame_image_paths, disk, error, result, clock,
                   run_dirs, enable_real_env, clients, events>>
    /\ UNCHANGED <<imgVars, concatVars, plannerVars>>

NextUI ==
    \/ ToggleFakeMode
    \/ SelectFrames
    \/ GenerateKeyframes
    \/ RegenerateFrames
    \/ ConfirmFrames
    \/ BuildVideo

SpecUI == InitUI /\ [][NextUI]_vars

----------------------------------------------------------------------------
(* Properties of generate_all_segments *)

SegmentsFinished == pc \in {"returned", "raised"}

\* the requests the video service received for segment k (0-based)
RequestsOf(k) == { n \in 1..Len(requests) : requests[n].segment = k }

\* 0-based indices of the descriptors whose id has no entry in the map
MissingIndices ==
    { i \in 0..(Len(frames) - 1) : SegmentFrameId(i) \notin DOMAIN frame_image_paths }

FirstMissing == CHOOSE i \in MissingIndices : \A j \in MissingIndices : i <= j

\* C1: segment 0 is requested with the first descriptor's original keyframe as
\* its start anchor; every segment k >= 1 is requested with the image that
\* extract_last_frame returned for the clip of segment k-1, and not with the
\* original keyframe of descriptor k.
C1_StartAnchorChained ==
    \A n \in 1..Len(requests) :
        LET r == requests[n]
            k == r.segment
        IN  IF k = 0
            THEN r.image = frame_image_paths[SegmentFrameId(0)]
            ELSE /\ k <= Len(extractions)
                 /\ extractions[k].video = clip_paths[k]
                 /\ r.image = extractions[k].returned
                 /\ r.image # frame_image_paths[SegmentFrameId(k)]

C1_Witness ==
    /\ pc = "returned"
    /\ RequestsOf(1) # {}

\* C2 (as claimed): in every run that returns, the content given as start anchor
\* of segment k >= 1 is the final frame of the clip of segment k-1, with the
\* media tool present or absent.
C2_AnchorIsFinalFrame ==
    pc = "returned" =>
        \A k \in 1..(Len(clip_paths) - 1) : \A n \in RequestsOf(k) :
            requests[n].image_content = FinalFrame(disk[clip_paths[k]])

\* C2 (amended): in every run that returns, the content given as start anchor of
\* segment k >= 1 is the image extract_last_frame wrote for the clip of segment
\* k-1: the frame the media tool took SseofSeconds before that clip's end when
\* the tool ran, the 4x4 black placeholder when the tool is absent.
C2_AnchorIsExtractedImage ==
    pc = "returned" =>
        \A k \in 1..(Len(clip_paths) - 1) : \A n \in RequestsOf(k) :
            requests[n].image_content =
                IF ffmpeg_installed
                THEN FrameOfClip(disk[clip_paths[k]], SseofSeconds)
                ELSE PlaceholderImage

C2_Witness ==
    /\ pc = "returned"
    /\ ffmpeg_installed
    /\ RequestsOf(1) # {}

\* C3: a call that returns (N >= 2, every id in the map, every generation and
\* extraction succeeded) returns exactly N-1 clip paths, the k-th being the
\* clip generated for the descriptor pair (k, k+1).
C3_ClipPerPair ==
    pc = "returned" =>
        /\ Len(frames) >= 2
        /\ result.kind = "clip_paths"
        /\ Len(result.value) = Len(frames) - 1
        /\ \A k \in 0..(Len(frames) - 2) :
              /\ result.value[k + 1] =
                    SegmentPath(k, SegmentFrameId(k), SegmentFrameId(k + 1))
              /\ \E n \in RequestsOf(k) :
                    /\ requests[n].output = result.value[k + 1]
                    /\ requests[n].last_frame = frame_image_paths[SegmentFrameId(k + 1)]
                    /\ disk[result.value[k + 1]] = ClipBytes(n)

C3_Witness ==
    /\ pc = "returned"
    /\ Len(result.value) = 2

\* C9 (as claimed): whenever the map lacks an entry for some id of the
\* sequence, the call ends with a KeyError naming a missing id.
C9_MissingIdAlwaysKeyError ==
    (SegmentsFinished /\ MissingIndices # {}) =>
        /\ pc = "raised"
        /\ error.type = "KeyError"
        /\ \E i \in MissingIndices : error.id = SegmentFrameId(i)

\* C9 (amended): when the sequence has at least 2 descriptors and the map lacks
\* an entry for some id, the call never returns normally: it raises a KeyError
\* naming the first missing id in sequence order, unless the generation or the
\* last-frame extraction of a segment before that descriptor raised first.
C9_MissingIdNeverSkipped ==
    (SegmentsFinished /\ Len(frames) >= 2 /\ MissingIndices # {}) =>
        /\ pc = "raised"
        /\ \/ /\ error.type = "KeyError"
              /\ error.id = SegmentFrameId(FirstMissing)
           \/ /\ error.type \in {"ServiceError", "RuntimeError", "FFmpegError"}
              /\ idx + 2 <= FirstMissing

C9_Witness ==
    /\ pc = "raised"
    /\ error.type = "KeyError"
    /\ FirstMissing = 2
    /\ Len(clip_paths) = 1

\* C10: with 0 or 1 descriptors the call raises ValueError before any video
\* request and before any last-frame extraction.
C10_TooFewFramesRaises ==
    (Len(frames) < 2 /\ pc # "segments_call") =>
        /\ pc = "raised"
        /\ error.type = "ValueError"
        /\ requests = <<>>
        /\ extractions = <<>>
        /\ clip_paths = <<>>

C10_Witness ==
    /\ pc = "raised"
    /\ error.type = "ValueError"
    /\ Len(frames) = 1
    /\ DOMAIN frame_image_paths # {}

----------------------------------------------------------------------------
(* Properties of the image passes *)

\* the reference image's bytes as a list, empty when no reference was supplied
ReferencePrefix ==
    IF ref_image_path # NoPath THEN <<disk0[ref_image_path]>> ELSE <<>>

\* the bytes the service returned in this pass for the frames 0..i-1, in order
ProducedBefore(i) == [j \in 1..i |-> produced[j - 1]]

\* C4: the anchor list generate_storyboard_images passes to the image service
\* for the descriptor at index i is the reference bytes (if supplied) followed
\* by the bytes generated in this pass for descriptors 0..i-1, in order.
C4_AnchorsArePriorImages ==
    last_call # NoResult =>
        /\ \A j \in 0..(last_call.index - 1) : j \in DOMAIN produced
        /\ last_call.anchors = ReferencePrefix \o ProducedBefore(last_call.index)
        /\ Len(last_call.anchors) = Len(ReferencePrefix) + last_call.index
        /\ last_call.prompt = ComposeImagePrompt(frames[last_call.index + 1])

C4_Witness ==
    /\ last_call # NoResult
    /\ last_call.index = 2
    /\ ref_image_path # NoPath
    /\ pc = "returned"

\* earlier frames that share frame j's file and were generated in this pass
GeneratedOnSamePath(j) ==
    { k \in 0..(j - 1) : ExistingPath(k) = ExistingPath(j) /\ k \in DOMAIN produced }

Latest(S) == CHOOSE k \in S : \A m \in S : m <= k

\* whether frame j's file existed when the loop reached frame j
ExistedWhenReached(j) ==
    Exists(disk0, ExistingPath(j)) \/ GeneratedOnSamePath(j) # {}

\* the bytes frame j's file held when the loop reached frame j
BytesWhenReached(j) ==
    IF GeneratedOnSamePath(j) # {}
    THEN produced[Latest(GeneratedOnSamePath(j))]
    ELSE disk0[ExistingPath(j)]

\* frame j's bytes in this pass: newly generated, or read from the kept file
CurrentBytes(j) ==
    IF j \in DOMAIN produced THEN produced[j] ELSE BytesWhenReached(j)

\* no other frame up to index i uses frame j's file
OwnFile(j, i) == \A k \in 0..i : k # j => ExistingPath(k) # ExistingPath(j)

\* C5: the anchor list regenerate_storyboard_images passes for a regenerated
\* descriptor at index i is the reference bytes (if supplied) followed by the
\* current bytes of all i earlier descriptors in order: read from disk for the
\* kept ones, newly generated for the ones regenerated in this pass.
C5_RegenerationAnchors ==
    last_call # NoResult =>
        LET i == last_call.index IN
        /\ last_call.anchors = ReferencePrefix \o [j \in 1..i |-> CurrentBytes(j - 1)]
        /\ \A j \in 0..(i - 1) :
              /\ j \in reads \/ j \in DOMAIN produced
              /\ OwnFile(j, i) =>
                    last_call.anchors[Len(ReferencePrefix) + j + 1] = disk[ExistingPath(j)]

C5_Witness ==
    /\ last_call # NoResult
    /\ last_call.index = 2
    /\ 0 \in reads
    /\ 1 \in DOMAIN produced
    /\ ref_image_path # NoPath

UntargetedIndices ==
    { i \in 0..(Len(frames) - 1) : ImageFrameId(i) \notin target_ids }

ProperSubsetTargeted ==
    /\ target_ids \subseteq ImageFrameIds
    /\ target_ids # ImageFrameIds

\* C6 (as claimed): after a pass with a proper subset of the ids as targets, the
\* file of every id outside the targets is as it was before the call.
C6_UntargetedFilesUntouched ==
    (pc = "returned" /\ ProperSubsetTargeted) =>
        \A i \in UntargetedIndices :
            /\ Exists(disk, ExistingPath(i)) <=> Exists(disk0, ExistingPath(i))
            /\ Exists(disk0, ExistingPath(i)) =>
                  disk[ExistingPath(i)] = disk0[ExistingPath(i)]

\* C6 (amended): after a pass with a proper subset of the ids as targets, the
\* file of every id outside the targets that existed before the call has
\* exactly the bytes it had before the call.
C6_ExistingUntargetedFilesUnchanged ==
    (pc = "returned" /\ ProperSubsetTargeted) =>
        \A i \in UntargetedIndices :
            Exists(disk0, ExistingPath(i)) =>
                /\ Exists(disk, ExistingPath(i))
                /\ disk[ExistingPath(i)] = disk0[ExistingPath(i)]

C6_Witness ==
    /\ pc = "returned"
    /\ ProperSubsetTargeted
    /\ target_ids # {}
    /\ called # {}
    /\ \E i \in UntargetedIndices : Exists(disk0, ExistingPath(i))

\* C7: the image service is called for a descriptor exactly when its id is a
\* target or its file is absent when the loop reaches it; every other
\* descriptor is only read; a missing file never raises a missing-file error.
C7_GenerateIffTargetOrMissing ==
    /\ error.type # "FileNotFoundError"
    /\ called \cap reads = {}
    /\ \A i \in 0..(Len(frames) - 1) :
          LET needed == ImageFrameId(i) \in target_ids \/ ~ExistedWhenReached(i) IN
          /\ i \in called => needed
          /\ i \in reads => ~needed
          /\ i < pos => (i \in called <=> needed) /\ (i \in reads <=> ~needed)
          /\ i \in reads => i \notin DOMAIN produced

C7_Witness ==
    /\ pc = "returned"
    /\ reads # {}
    /\ \E i \in UntargetedIndices : i \in called /\ ~Exists(disk0, ExistingPath(i))

\* C8: the map regenerate_storyboard_images returns has an entry for every id
\* of the descriptor sequence, each naming a file that exists.
C8_ReturnedMapComplete ==
    pc = "returned" =>
        /\ result.kind = "frame_paths"
        /\ \A i \in 0..(Len(frames) - 1) :
              /\ ImageFrameId(i) \in DOMAIN result.value
              /\ result.value[ImageFrameId(i)] = ExistingPath(i)
              /\ Exists(disk, result.value[ImageFrameId(i)])

C8_Witness ==
    /\ pc = "returned"
    /\ \E i \in 0..(Len(frames) - 1) : ImageFrameId(i) \notin DOMAIN frame_image_paths
    /\ \E i \in 0..(Len(frames) - 1) : ImageFrameId(i) \in DOMAIN frame_image_paths

\* C17: segment k is requested with the keyframe image of descriptor k+1 (the
\* file the frame image map names for it, as it was before the call) as its
\* end anchor and with descriptor k+1's change_from_previous as its motion
\* description, "smooth continuation" when that is null or empty; the motion
\* description is never the change note of the pair's first descriptor
C17_EndAnchorAndMotion ==
    \A n \in 1..Len(requests) :
        LET k == requests[n].segment
            first == frames[k + 1]
            second == frames[k + 2]
        IN  /\ requests[n].last_frame = frame_image_paths[SegmentFrameId(k + 1)]
            /\ disk[requests[n].last_frame] = Keyframe(SegmentFrameId(k + 1))
            /\ requests[n].motion =
                  IF second.change_from_previous = Null
                  THEN "smooth continuation"
                  ELSE second.change_from_previous
            /\ first.change_from_previous # Null =>
                  requests[n].motion # first.change_from_previous

C17_Witness ==
    /\ Len(frames) = 3
    /\ frames[2].change_from_previous # Null
    /\ frames[3].change_from_previous = Null
    /\ \E n \in 1..Len(requests) :
          requests[n].segment = 1 /\ requests[n].motion = "smooth continuation"
    /\ \E n \in 1..Len(requests) :
          requests[n].segment = 0 /\ requests[n].motion = frames[2].change_from_previous

----------------------------------------------------------------------------
(* Properties of generate_segment_for_pair *)

\* the operation the call holds has completed without a video
CompletedWithoutVideo == operation.done /\ operation.outcome # "videos"

C11_State ==
    /\ Len(requests) <= MaxVideoAttempts
    /\ \A n \in 1..Len(requests) : requests[n].attempt = n - 1
    /\ error.type = "RuntimeError" =>
          /\ Len(requests) = MaxVideoAttempts
          /\ CompletedWithoutVideo
          /\ (operation.outcome = "error" => error.text = "Veo operation failed")
    /\ PairReturned =>
          /\ operation.done /\ operation.outcome = "videos"
          /\ disk[generated] = ClipBytes(Len(requests))

C11_Step ==
    /\ Len(requests') > Len(requests) /\ requests # <<>> => CompletedWithoutVideo
    /\ (pc = "video_poll" /\ operation.done /\ operation.outcome = "error") =>
          \/ video_attempt = 0 /\ pc' = "video_submit" /\ video_attempt' = 1
          \/ video_attempt = 1 /\ pc' = "raised" /\ error'.type = "RuntimeError"

\* C11: one call of generate_segment_for_pair submits at most two video
\* requests: a request after the first is submitted only after the operation
\* before it completed without a video, a completed operation carrying an error
\* leads to the resubmission on the first attempt and to RuntimeError with that
\* error on the second, and the call that returned wrote the video of the last
\* request it submitted
C11_AtMostTwoSubmissions == []C11_State /\ [][C11_Step]_vars

C11_Witness ==
    /\ pc = "raised"
    /\ error = VeoError("Veo operation failed")
    /\ Len(requests) = MaxVideoAttempts

\* the step inspects the operation's error or response, or downloads a video
InspectsOrDownloads ==
    \/ disk' # disk
    \/ generated' # generated
    \/ video_attempt' # video_attempt
    \/ error' # error /\ error'.type = "RuntimeError"
    \/ error' # error /\ error' = ServiceError("files.download")

C12_Step ==
    /\ InspectsOrDownloads => pc = "video_poll" /\ operation.done
    /\ (pc = "video_poll" /\ ~operation.done) =>
          /\ last_sleep' = PollDelaySeconds
          /\ polls' = polls + 1
          /\ \/ pc' = "video_poll" /\ error' = error
             \/ pc' = "raised" /\ error' = ServiceError("operations.get")
          /\ UNCHANGED <<disk, generated, video_attempt, requests, result>>

\* C12: generate_segment_for_pair inspects an operation's error and response,
\* and downloads and writes a video, only while the operation it holds has its
\* done flag set; while the flag is not set its only step is to sleep the fixed
\* PollDelaySeconds and call operations.get again
C12_InspectOnlyWhenDone == [][C12_Step]_vars

C12_Witness ==
    /\ PairReturned
    /\ polls = MaxPolls
    /\ last_sleep = PollDelaySeconds

\* the polling loop is left while the operation is not done
LeavesLoopUndone == pc = "video_poll" /\ ~operation.done /\ pc' # "video_poll"

\* C13: when every submitted operation reports done after finitely many polls
\* (MaxPolls at most), every call of generate_segment_for_pair eventually
\* returns its clip path or raises; the polling loop is left before the
\* operation is done only by an exception of operations.get
C13_PairTerminates ==
    /\ <>PairFinished
    /\ [][LeavesLoopUndone => error' = ServiceError("operations.get")]_vars

C13_Witness ==
    /\ PairReturned
    /\ Len(requests) = MaxVideoAttempts
    /\ polls = MaxPolls

\* C14 as stated, at the video call site: an exception of generate_videos,
\* operations.get or files.download leaves the call only after the video
\* generation was attempted more than once
C14_FailedCallsRetried ==
    (pc = "raised" /\ error.type = "ServiceError") =>
        /\ Len(requests) > 1
        /\ video_attempt > 0

\* C16: every video request asks for VeoDurationSeconds (8) seconds outside
\* fake mode, whatever cfg.segment_duration_seconds holds, and for the
\* configured cfg.segment_duration_seconds in fake mode
C16_RequestedDuration ==
    \A n \in 1..Len(requests) :
        requests[n].duration =
            IF FakeMode THEN segment_duration_seconds ELSE VeoDurationSeconds

C16_Witness ==
    /\ Len(requests) = MaxVideoAttempts
    /\ ~FakeMode
    /\ segment_duration_seconds # VeoDurationSeconds
    /\ requests[MaxVideoAttempts].duration = VeoDurationSeconds

----------------------------------------------------------------------------
(* Properties of _generate_image_bytes *)

\* the latest image call was answered with extractable bytes
LatestCallSucceeded == last_call.index \in DOMAIN produced

\* C15: for each frame the image service is called at most MaxImageAttempts
\* (2) times: the call that yields bytes is the last one made for the frame
\* and every call before it failed, and the exception that leaves after two
\* failed calls (the service raising, or a response without image bytes) is
\* the one caught on the second call
C15_ImageAttempts ==
    last_call # NoResult =>
        /\ last_call.attempt < MaxImageAttempts
        /\ Len(image_failures) =
              IF LatestCallSucceeded THEN last_call.attempt ELSE last_call.attempt + 1
        /\ \A n \in 1..Len(image_failures) : image_failures[n].attempt = n - 1
        /\ pc = "raised" =>
              /\ ~LatestCallSucceeded
              /\ Len(image_failures) = MaxImageAttempts
              /\ error = image_failures[MaxImageAttempts]

C15_Witness ==
    /\ pc = "raised"
    /\ pos = 1
    /\ Len(image_failures) = MaxImageAttempts
    /\ image_failures[1].type # image_failures[2].type
    /\ error.type = "ValueError"

----------------------------------------------------------------------------
(* Properties of concat_clips *)

\* the copy run comes first, the re-encode run at most once and only after a
\* copy run that exited non-zero; a run that exited 0 ends the call with the
\* output path
RunOrder ==
    /\ Len(tool_runs) <= 2
    /\ tool_runs # <<>> => tool_runs[1].mode = "copy"
    /\ Len(tool_runs) = 2 =>
          tool_runs[2].mode = "reencode" /\ tool_runs[1].exit # 0
    /\ (\E n \in 1..Len(tool_runs) : tool_runs[n].exit = 0) =>
          /\ pc = "returned"
          /\ result = [kind |-> "final_video", value |-> FinalVideoPath]
          /\ tool_runs[Len(tool_runs)].exit = 0

AllRunsFailed == \A n \in 1..Len(tool_runs) : tool_runs[n].exit # 0

\* C18 as stated: copy first, re-encode only after a failed copy and at most
\* once, the concat failure raised only after both runs exited non-zero, the
\* output path returned when either run exited zero
C18_FailureOnlyAfterBothRuns ==
    /\ RunOrder
    /\ error = ConcatFailed => Len(tool_runs) = 2 /\ AllRunsFailed

\* C18 amended: as stated when reencode_on_failure is true (its default); when
\* the caller passes false, the concat failure is raised after the copy run
\* alone and no re-encode run is made
C18_FailureAfterAllowedRuns ==
    /\ RunOrder
    /\ error = ConcatFailed =>
          /\ AllRunsFailed
          /\ Len(tool_runs) = IF reencode_on_failure THEN 2 ELSE 1

C18_Witness ==
    /\ pc = "returned"
    /\ Len(tool_runs) = 2
    /\ tool_runs[1].exit # 0
    /\ tool_runs[2] = [mode |-> "reencode", exit |-> 0,
                       manifest |-> ManifestText(clip_list)]
    /\ disk[FinalVideoPath] = ConcatOutput("reencode", clip_list)

\* the call has ended
ConcatFinished == pc \in {"returned", "raised"}

\* the fixed byte sequence of a placeholder MP4
PlaceholderVideo == [kind |-> "placeholder_mp4"]

\* C19 as stated: with the media tool absent and every given clip existing,
\* concat_clips does not raise and returns the output path, whose content is
\* the fixed placeholder byte sequence
C19_PlaceholderWhenToolAbsent ==
    (ConcatFinished /\ ~ffmpeg_installed /\ clip_list # <<>> /\ MissingClips = {}) =>
        /\ pc = "returned"
        /\ result = [kind |-> "final_video", value |-> FinalVideoPath]
        /\ Exists(disk, FinalVideoPath)
        /\ disk[FinalVideoPath] = PlaceholderVideo

\* C20: concat_clips called with an empty clip list raises ValueError, and no
\* manifest is written and the media tool is not run at any point of the call
C20_EmptyListRaises ==
    clip_list = <<>> =>
        /\ ~Exists(disk, ManifestPath)
        /\ tool_runs = <<>>
        /\ pc \in {"concat_call", "raised"}
        /\ pc = "raised" =>
              error = [type |-> "ValueError",
                       text |-> "No clip paths provided for concatenation",
                       id |-> Null]

C20_Witness ==
    /\ clip_list = <<>>
    /\ pc = "raised"
    /\ error.type = "ValueError"
    /\ ffmpeg_installed

\* C21: when a clip given to concat_clips does not exist, the call raises
\* FileNotFoundError naming the first missing clip of the list; no manifest is
\* written, the media tool is not run and no output file exists at any point
\* of the call
C21_MissingClipRaises ==
    (clip_list # <<>> /\ MissingClips # {}) =>
        /\ ~Exists(disk, ManifestPath)
        /\ tool_runs = <<>>
        /\ ~Exists(disk, FinalVideoPath)
        /\ pc \in {"concat_call", "raised"}
        /\ pc = "raised" =>
              \E i \in MissingClips :
                  /\ \A j \in 1..(i - 1) : Exists(disk, clip_list[j])
                  /\ error = ClipNotFound(clip_list[i])

C21_Witness ==
    /\ pc = "raised"
    /\ Len(clip_list) = 3
    /\ MissingClips = {2, 3}
    /\ error = ClipNotFound(clip_list[2])
    /\ ffmpeg_installed

----------------------------------------------------------------------------
(* Properties of extract_last_frame inside generate_all_segments *)

\* C22: when the ffmpeg binary is absent, extract_last_frame does not raise:
\* it writes the placeholder image at the requested output path and returns
\* that path, and generate_all_segments goes on past the segment
C22_AbsentToolPlaceholder ==
    \A n \in 1..Len(extractions) :
        extractions[n].tool = "binary absent" =>
            /\ extractions[n].returned = extractions[n].output
            /\ Exists(disk, extractions[n].output)
            /\ disk[extractions[n].output] = PlaceholderImage
            /\ error.type # "FFmpegError"
            /\ idx >= n

C22_Witness ==
    /\ ~ffmpeg_installed
    /\ Len(extractions) = 1
    /\ extractions[1].tool = "binary absent"
    /\ \E n \in RequestsOf(1) : requests[n].image_content = PlaceholderImage

\* C23: when ffmpeg is present and exits non-zero during last-frame
\* extraction, FFmpegError is raised and leaves generate_all_segments: nothing
\* is written at the output path, no path is returned, the extraction is the
\* last one made and no clip list is returned
C23_NonZeroExitRaises ==
    \A n \in 1..Len(extractions) :
        extractions[n].tool = "exit non-zero" =>
            /\ n = Len(extractions)
            /\ pc = "raised"
            /\ error = FFmpegError
            /\ result = NoResult
            /\ extractions[n].returned = NoPath
            /\ ~Exists(disk, extractions[n].output)

C23_Witness ==
    /\ pc = "raised"
    /\ error = FFmpegError
    /\ Len(extractions) = 2
    /\ extractions[1].tool = "exit 0"
    /\ extractions[2].tool = "exit non-zero"

\* C24 as stated: when ffmpeg is present and exits non-zero, extract_last_frame
\* writes the placeholder image and returns its path instead of failing
C24_NonZeroExitPlaceholder ==
    \A n \in 1..Len(extractions) :
        extractions[n].tool = "exit non-zero" =>
            /\ extractions[n].returned = extractions[n].output
            /\ Exists(disk, extractions[n].output)
            /\ disk[extractions[n].output] = PlaceholderImage
            /\ error.type # "FFmpegError"

\* C24 amended: the placeholder image is written exactly for the extractions
\* whose ffmpeg binary was absent; an extraction whose tool exited non-zero
\* returns no path and fails with FFmpegError, and one whose tool exited 0
\* leaves the tool's frame
C24_PlaceholderOnlyWhenAbsent ==
    \A n \in 1..Len(extractions) :
        LET e == extractions[n] IN
        /\ (Exists(disk, e.output) /\ disk[e.output] = PlaceholderImage)
              <=> e.tool = "binary absent"
        /\ e.tool = "exit non-zero" => e.returned = NoPath /\ error.type = "FFmpegError"
        /\ e.tool = "exit 0" =>
              e.returned = e.output /\ disk[e.output] = FfmpegLastFrame(disk[e.video])

C24_Witness ==
    /\ ffmpeg_installed
    /\ Len(extractions) = 1
    /\ extractions[1].tool = "exit non-zero"
    /\ error = FFmpegError
    /\ ~Exists(disk, extractions[1].output)

----------------------------------------------------------------------------
(* Properties of build_video_from_frames *)

\* concat_clips has been called
ConcatInvoked ==
    \/ pc \in {"concat_call", "concat_copy", "concat_reencode"}
    \/ clip_list # <<>>
    \/ tool_runs # <<>>
    \/ result.kind = "final_video"

\* an exception of generate_all_segments: the frame checks, the video service,
\* the operation's failure or the last-frame extraction
SegmentsRaised ==
    /\ pc = "raised"
    /\ \/ error.type \in {"ValueError", "KeyError", "ServiceError", "FFmpegError"}
       \/ error.type = "RuntimeError" /\ error # ConcatFailed

\* C25: concat_clips is called only after generate_all_segments returned the
\* clips of all N-1 pairs, and with exactly those clips in segment order; when
\* segment generation or last-frame extraction raises, concat_clips is never
\* called and no final video path is returned
C25_ConcatAfterAllSegments ==
    /\ ConcatInvoked =>
          /\ Len(frames) >= 2
          /\ Len(clip_list) = Len(frames) - 1
          /\ Len(extractions) = Len(frames) - 1
          /\ clip_list = clip_paths
          /\ \A k \in 1..Len(clip_list) :
                /\ clip_list[k] = SegmentPath(k - 1, SegmentFrameId(k - 1), SegmentFrameId(k))
                /\ extractions[k].video = clip_list[k]
                /\ extractions[k].returned # NoPath
    /\ SegmentsRaised => ~ConcatInvoked /\ result = NoResult
    /\ result.kind = "final_video" =>
          /\ pc = "returned"
          /\ tool_runs # <<>>
          /\ tool_runs[Len(tool_runs)].exit = 0

C25_Witness ==
    /\ pc = "returned"
    /\ result = [kind |-> "final_video", value |-> FinalVideoPath]
    /\ Len(frames) = 3
    /\ Len(clip_list) = 2
    /\ disk[FinalVideoPath] = ConcatOutput("copy", clip_paths)

----------------------------------------------------------------------------
(* Properties of generate_frame_prompts *)

\* the response is JSON describing frames: no "frames" key, or a list of objects
DescribesFrames(r) ==
    /\ r.kind = "json"
    /\ \A i \in 1..Len(ListedFrames(r.doc)) : IsObject(ListedFrames(r.doc)[i])

PlannerAnswered == response # NoResponse

DescriptorKeys == {"id", "prompt", "change_from_previous"}

\* the response is not JSON, or it is JSON that lists too few frames or a frame
\* without one of its keys
Malformed(r) ==
    \/ r.kind \in {"no_json", "bad_json"}
    \/ /\ DescribesFrames(r)
       /\ LET fs == ListedFrames(r.doc) IN
          \/ Len(fs) < num_frames
          \/ \E i \in 1..Len(fs) : i <= num_frames /\ DOMAIN fs[i] # DescriptorKeys

\* C27: when the model's response is malformed (not parseable as JSON, or JSON
\* with missing frames or fields) the call does not fail and returns
\* num_frames complete descriptors
C27_MalformedBackfilled ==
    (PlannerAnswered /\ Malformed(response)) =>
        /\ pc = "returned"
        /\ error = NoError
        /\ result.kind = "prompts_data"
        /\ Len(result.frames) = num_frames
        /\ \A i \in 1..Len(result.frames) : DOMAIN result.frames[i] = DescriptorKeys

NumFramesOutOfRange == num_frames < 2 \/ num_frames > AlphabetSize

\* C28: with num_frames below 2 or above 26 the call raises ValueError in its
\* first step: no generate_content call is ever made, nothing is retried and
\* nothing is returned
C28_OutOfRangeRaisesFirst ==
    NumFramesOutOfRange =>
        /\ text_calls = 0
        /\ response = NoResponse
        /\ result = NoResult
        /\ pc \in {"planner_call", "raised"}
        /\ pc = "raised" => error.type = "ValueError"
        /\ pc = "planner_call" => error = NoError

C28_Witness ==
    /\ num_frames = AlphabetSize + 1
    /\ pc = "raised"
    /\ error.type = "ValueError"
    /\ error.text = "num_frames exceeds supported frame labels"
    /\ text_calls = 0

\* C29: the descriptors returned for num_frames = N carry, in order, the first
\* N uppercase letters as ids (hence pairwise distinct ids), the first has a
\* null change_from_previous and every later one a non-null one, whatever the
\* response supplied
C29_IdsAndChanges ==
    (pc = "returned" /\ result.kind = "prompts_data") =>
        \A i \in 1..Len(result.frames) :
            /\ result.frames[i].id = LettersSequence(num_frames)[i]
            /\ i = 1 => result.frames[i].change_from_previous = Null
            /\ i > 1 => result.frames[i].change_from_previous # Null

----------------------------------------------------------------------------
(* Determinism of regenerate_storyboard_images *)

\* The pass replayed as a function of what the call was given and nothing
\* else: the descriptors, the frame image map, the target ids, the reference
\* image path and the files present when the call began (disk0), with the service
\* answering GeneratedBytes(i) for the frame at index i. Replay(k) is the
\* outcome of the first k frames: the files, the images collected, the calls
\* issued (index, prompt, anchor list) and the paths written.
ReplayReference ==
    IF ref_image_path # NoPath THEN <<disk0[ref_image_path]>> ELSE <<>>

RECURSIVE Replay(_)
Replay(k) ==
    IF k = 0
    THEN [files |-> disk0, images |-> <<>>, calls |-> <<>>, written |-> {}]
    ELSE LET before == Replay(k - 1)
             i == k - 1
             id == IF frames[k].id = Null THEN "X" ELSE frames[k].id
             path == IF id \in DOMAIN frame_image_paths
                     THEN frame_image_paths[id] ELSE FramePath(id)
             text == IF frames[k].prompt # Null THEN frames[k].prompt
                     ELSE IF frames[k].change_from_previous # Null
                          THEN frames[k].change_from_previous
                          ELSE "incremental change from previous frame"
         IN  IF id \in target_ids \/ path \notin DOMAIN before.files
             THEN [files |-> WriteBytes(before.files, path, GeneratedBytes(i)),
                   images |-> Append(before.images, GeneratedBytes(i)),
                   calls |-> Append(before.calls,
                                    [index |-> i, prompt |-> text,
                                     anchors |-> ReplayReference \o before.images]),
                   written |-> before.written \cup {path}]
             ELSE [files |-> before.files,
                   images |-> Append(before.images, before.files[path]),
                   calls |-> before.calls,
                   written |-> before.written]

\* the calls the replay issues for the first k frames, as a set
ReplayCalls(k) == { Replay(k).calls[n] : n \in 1..Len(Replay(k).calls) }

\* the (index, prompt, anchor list) of the latest service call
LatestCallArguments ==
    [index |-> last_call.index, prompt |-> last_call.prompt,
     anchors |-> last_call.anchors]

\* C30: what regenerate_storyboard_images does is a function of the state it
\* is called from: after any number of frames the files on disk, the paths
\* written, the frames for which the service was called and the (prompt,
\* anchor list) of every call are those of the replay from the initial state,
\* so two calls from identical state with a service that answers alike issue
\* the same calls in the same order and write the same files
C30_RegenerationDeterministic ==
    /\ disk = Replay(pos).files
    /\ generated_images = Replay(pos).images
    /\ { ExistingPath(i) : i \in DOMAIN produced } = Replay(pos).written
    /\ { i \in called : i < pos } = { c.index : c \in ReplayCalls(pos) }
    /\ last_call # NoResult =>
          /\ last_call.index <= pos
          /\ LatestCallArguments \in ReplayCalls(last_call.index + 1)
          /\ \A c \in ReplayCalls(last_call.index + 1) : c.index <= last_call.index
    /\ (pc = "returned" /\ result.kind = "frame_paths") => pos = Len(frames)

C30_Witness ==
    /\ pc = "returned"
    /\ result.kind = "frame_paths"
    /\ Len(frames) = 3
    /\ ref_image_path = ReferencePath
    /\ Len(Replay(3).calls) = 2
    /\ reads # {}
    /\ last_call.index = 2
    /\ Len(last_call.anchors) = 3
    /\ Cardinality(Replay(3).written) = 2

----------------------------------------------------------------------------
(* The end-frame lookups of generate_all_segments *)

\* C34: the end-frame ids are looked up segment by segment: a KeyError raised
\* before any video request names the descriptor at index 0 or 1; when the
\* first missing entry belongs to the descriptor at index k >= 2, the KeyError
\* is raised after segments 0..k-2 have been requested, written to disk and
\* last-frame-extracted, and no clip list is returned
C34_LookupWhenSegmentReached ==
    (pc = "raised" /\ error.type = "KeyError") =>
        LET k == FirstMissing IN
        /\ MissingIndices # {}
        /\ error.id = SegmentFrameId(k)
        /\ result = NoResult
        /\ requests = <<>> <=> k <= 1
        /\ k >= 2 =>
              /\ Len(clip_paths) = k - 1
              /\ Len(extractions) = k - 1
              /\ \A s \in 0..(k - 2) :
                    /\ RequestsOf(s) # {}
                    /\ Exists(disk, clip_paths[s + 1])
                    /\ extractions[s + 1].video = clip_paths[s + 1]
                    /\ extractions[s + 1].returned # NoPath
                    /\ Exists(disk, extractions[s + 1].returned)

C34_Witness ==
    /\ pc = "raised"
    /\ error.type = "KeyError"
    /\ Len(frames) = 3
    /\ FirstMissing = 2
    /\ error = KeyErrorFrame(SegmentFrameId(2))
    /\ Len(requests) >= 1
    /\ Len(extractions) = 1
    /\ Exists(disk, clip_paths[1])
    /\ result = NoResult

----------------------------------------------------------------------------
(* A failing regeneration pass *)

\* the pass ended with the exception of an image call
ImageCallRaised ==
    pc = "raised" /\ error.type \in {"ImageServiceError", "ValueError"}

\* the paths the pass has written so far
WrittenPaths == { ExistingPath(j) : j \in DOMAIN produced }

\* C35: regenerate_storyboard_images is not atomic: when the image call for
\* the frame at index i fails after its retries, the last exception leaves the
\* call and no map is returned; every target or missing frame before i has
\* been generated and its file holds new bytes; no frame at index i or later
\* has been generated and every file outside the written paths is as it was
C35_FailureLeavesEarlierWrites ==
    ImageCallRaised =>
        /\ result = NoResult
        /\ Len(image_failures) = MaxImageAttempts
        /\ error = image_failures[Len(image_failures)]
        /\ pos \in called
        /\ ImageFrameId(pos) \in target_ids \/ ~Exists(disk0, ExistingPath(pos))
        /\ DOMAIN produced \subseteq 0..(pos - 1)
        /\ \A j \in 0..(pos - 1) :
              /\ ImageFrameId(j) \in target_ids => j \in DOMAIN produced
              /\ ~Exists(disk0, ExistingPath(j)) => ExistingPath(j) \in WrittenPaths
              /\ j \in DOMAIN produced =>
                    /\ Exists(disk, ExistingPath(j))
                    /\ disk[ExistingPath(j)] \in { produced[m] : m \in DOMAIN produced }
                    /\ Exists(disk0, ExistingPath(j)) =>
                          disk[ExistingPath(j)] # disk0[ExistingPath(j)]
        /\ DOMAIN disk = DOMAIN disk0 \cup WrittenPaths
        /\ \A q \in DOMAIN disk0 : q \notin WrittenPaths => disk[q] = disk0[q]

C35_Witness ==
    /\ ImageCallRaised
    /\ pos = 1
    /\ ImageFrameId(0) \in target_ids
    /\ ImageFrameId(1) \in target_ids
    /\ ImageFrameId(0) # ImageFrameId(1)
    /\ Exists(disk0, ExistingPath(0))
    /\ Exists(disk0, ExistingPath(1))
    /\ disk[ExistingPath(0)] = GeneratedBytes(0)
    /\ disk[ExistingPath(1)] = disk0[ExistingPath(1)]

----------------------------------------------------------------------------
(* The paths manifest of concat_clips *)

\* the manifest was written: the checks of the clip list passed
ManifestWritten ==
    \/ pc \in {"concat_copy", "concat_reencode"}
    \/ tool_runs # <<>>
    \/ error = ToolNotFound

\* C36: once the manifest has been written it is on disk while the media tool
\* runs and read by every run, and it is gone when concat_clips ends, whatever
\* the outcome: a successful copy run, a successful re-encode run, both runs
\* failed, or the media tool could not be started
C36_ManifestRemoved ==
    /\ pc \in {"concat_copy", "concat_reencode"} =>
          /\ Exists(disk, ManifestPath)
          /\ disk[ManifestPath] = ManifestText(clip_list)
    /\ \A n \in 1..Len(tool_runs) : tool_runs[n].manifest = ManifestText(clip_list)
    /\ (ConcatFinished /\ ManifestWritten) =>
          /\ ~Exists(disk, ManifestPath)
          /\ \/ result = [kind |-> "final_video", value |-> FinalVideoPath]
             \/ error \in {ConcatFailed, ToolNotFound}

C36_Witness ==
    /\ pc = "raised"
    /\ error = ConcatFailed
    /\ Len(tool_runs) = 2
    /\ tool_runs[2].mode = "reencode"
    /\ tool_runs[2].manifest = ManifestText(clip_list)
    /\ ~Exists(disk, ManifestPath)

----------------------------------------------------------------------------
(* Fake and real mode of the generation calls *)

\* C33 (as claimed): the mode of an image or segment generation call follows
\* from the client alone: a fake client gets paths, raw bytes and the
\* configured duration, a real client gets typed wrappers and 8 seconds,
\* whatever USE_FAKE_GENAI holds
C33_ModeFromClientAlone ==
    /\ \A n \in 1..Len(requests) :
          /\ requests[n].image_form = IF client_is_fake THEN "path" ELSE "image_bytes"
          /\ requests[n].duration =
                IF client_is_fake THEN segment_duration_seconds ELSE VeoDurationSeconds
    /\ last_call # NoResult =>
          last_call.anchor_form = IF client_is_fake THEN "bytes" ELSE "part"

\* C33 (amended): a call is driven in fake mode when its client is a fake
\* client or USE_FAKE_GENAI is 1, and in real mode (typed wrappers, 8 seconds)
\* only with a real client while USE_FAKE_GENAI is not 1
C33_ModeFromClientOrFlag ==
    /\ \A n \in 1..Len(requests) :
          /\ requests[n].image_form =
                IF client_is_fake \/ use_fake_env THEN "path" ELSE "image_bytes"
          /\ requests[n].duration =
                IF client_is_fake \/ use_fake_env
                THEN segment_duration_seconds ELSE VeoDurationSeconds
    /\ last_call # NoResult =>
          last_call.anchor_form =
              IF client_is_fake \/ use_fake_env THEN "bytes" ELSE "part"

C33_Witness ==
    /\ ~client_is_fake
    /\ use_fake_env
    /\ Len(requests) = 1
    /\ segment_duration_seconds = 4
    /\ requests[1].image_form = "path"
    /\ requests[1].duration = 4

----------------------------------------------------------------------------
(* Properties of the host process *)

\* C31: make_run_directory called without a run name never returns a
\* directory an earlier call returned, even within the same clock second
C31_RunDirectoriesDistinct ==
    \A i, j \in 1..Len(run_dirs) :
        (i < j /\ run_dirs[i].name = Null /\ run_dirs[j].name = Null) =>
            run_dirs[i] # run_dirs[j]

\* C32: get_genai_client returns a real client only under ENABLE_REAL_GENAI=1,
\* which takes precedence over USE_FAKE_GENAI; it returns a fake client exactly
\* when ENABLE_REAL_GENAI is not 1 and USE_FAKE_GENAI=1, and raises
\* RuntimeError exactly when neither flag is set
C32_ClientFollowsFlags ==
    \A n \in 1..Len(clients) :
        LET c == clients[n] IN
        /\ c.outcome = "real" => c.enable_real
        /\ c.enable_real => c.outcome \in {"real", "ImportError"}
        /\ c.outcome = "fake" <=> (~c.enable_real /\ c.use_fake)
        /\ c.outcome = "RuntimeError" <=> (~c.enable_real /\ ~c.use_fake)

C32_Witness ==
    /\ Len(clients) = 1
    /\ clients[1] = [outcome |-> "real", enable_real |-> TRUE, use_fake |-> TRUE]
    /\ result = [kind |-> "client", value |-> "real"]

----------------------------------------------------------------------------
(* Properties of stream_build_video_from_frames *)

FinalResultEvents ==
    { n \in 1..Len(events) : events[n].final_video_path # NoPath }

ConcatCompletedEvents ==
    { n \in 1..Len(events) :
         events[n].stage = "concat" /\ events[n].message = "completed" }

\* C37: the event of type "result" carrying final_video_path is the last
\* event and is yielded only after concat_clips returned; the concat-completed
\* progress event too is yielded only after concat_clips returned; when the
\* segment stream delivered no clip paths concat_clips raises ValueError and
\* neither of the two events is yielded
C37_ResultLastAfterConcat ==
    /\ \A n \in FinalResultEvents :
          /\ n = Len(events)
          /\ events[n].type = "result"
          /\ pc = "stream_done"
          /\ n - 1 \in ConcatCompletedEvents
    /\ pc = "stream_done" => FinalResultEvents # {}
    /\ ConcatCompletedEvents # {} =>
          /\ pc \in {"stream_result", "stream_done"}
          /\ tool_runs # <<>>
          /\ tool_runs[Len(tool_runs)].exit = 0
          /\ Exists(disk, FinalVideoPath)
    /\ (pc # "stream_loop" /\ clip_list = <<>> /\ error.type # "ServiceError") =>
          /\ pc \in {"concat_call", "raised"}
          /\ pc = "raised" => error.type = "ValueError"
          /\ ConcatCompletedEvents = {}
          /\ FinalResultEvents = {}
    /\ pc = "raised" => (ConcatCompletedEvents = {} /\ FinalResultEvents = {})

C37_Witness ==
    /\ pc = "stream_done"
    /\ Len(clip_list) = 2
    /\ Len(events) = 5
    /\ events[1].type = "progress"
    /\ events[2].type = "result"
    /\ events[3].stage = "concat"
    /\ events[5] = StreamEvent("result", Null, 0, 0, Null, <<>>, FinalVideoPath)

----------------------------------------------------------------------------
(* Properties of the Streamlit page *)

\* C38: after any sequence of button presses step3_complete implies
\* step2_complete and step2_complete implies step1_complete; the build handler
\* runs only from a state with step2_complete, the confirm and the regenerate
\* handler only from a state with step1_complete
C38_StepsInOrder ==
    /\ [](/\ session_state.step3_complete => session_state.step2_complete
          /\ session_state.step2_complete => session_state.step1_complete)
    /\ [][/\ BuildVideo => session_state.step2_complete
          /\ ConfirmFrames => session_state.step1_complete
          /\ RegenerateFrames => session_state.step1_complete]_vars

C38_Witness ==
    /\ session_state.step1_complete
    /\ session_state.step2_complete
    /\ session_state.step3_complete
    /\ session_state.frames_version = 2
    /\ session_state.run_dir = 2

\* C39: final_video_path is set only while step3_complete holds, so that the
\* page shows the final video (app.py 254-255) only then
C39_VideoOnlyWhileStep3 ==
    session_state.final_video_path # Null => session_state.step3_complete

====
